---- MODULE Spec2Model ----
(***************************************************************************)
(* DualDory linkable threshold ring signatures (packages common, dory,     *)
(* tag, threshold).                                                        *)
(*                                                                         *)
(* The three groups G1, G2, Gt have the same prime order q; an element is  *)
(* represented by its discrete logarithm to the group's generator (GenG1,  *)
(* GenG2, e(GenG1, GenG2)), so the group law is addition of logarithms     *)
(* modulo q, scalar multiplication / exponentiation is multiplication      *)
(* modulo q and the pairing multiplies the two logarithms.  The field is   *)
(* scaled down from 254 bits to Q; a byte takes ByteBase values and a      *)
(* SHA-256 digest is DigestLen bytes.                                      *)
(***************************************************************************)
EXTENDS Integers, Sequences, FiniteSets, TLC

(* Group order q (the limbs of part_002 feFrom256Bits), scaled. *)
Q == 37

(* Values of one byte. *)
ByteBase == 4

(* Random scalars are sampled from 0..MaxDraw (a sample of [0, q)). *)
MaxDraw == 2

Zr == 0 .. (Q - 1)

Draws == 0 .. MaxDraw

Nil == "nil"

Panic == "panic"

(* The element of a one-element set. *)
The(S) == CHOOSE x \in S : TRUE

(* The value of a one-point function: With([x \in {v} |-> F(x)]) is F(x) for
   the local variable x = v, v being computed once. *)
With(f) == The({g[The(DOMAIN g)] : g \in {f}})

(***************************************************************************)
(* mathlib scalars and group elements                                      *)
(***************************************************************************)

(* Zr.Plus: the sum, not reduced. *)
ZrPlus(x, y) == x + y

(* Zr.Mul: the product modulo q. *)
ZrMul(x, y) == (x * y) % Q

(* Zr.Mod(GroupOrder). *)
ZrMod(x) == x % Q

(* G.Mul(x) for an element of G1, G2 (and Gt.Exp): any scalar, reduced or not. *)
GMul(g, x) == (g * x) % Q

(* G.Add (and Gt.Mul): the group law. *)
GAdd(g, h) == (g + h) % Q

(* G.Sub (and division in Gt). *)
GSub(g, h) == (g + (Q - (h % Q))) % Q

GenG1 == 1 % Q

GenG2 == 1 % Q

(* Pairing followed by the final exponentiation. *)
e(g1, g2) == (g1 * g2) % Q

InvTable == [x \in Zr |-> IF x = 0 THEN 0 ELSE CHOOSE y \in Zr : (x * y) % Q = 1]

(* inverse(x): x.InvModP(q); big.Int.ModInverse leaves 0 unchanged. *)
inverse(x) == InvTable[x % Q]

(***************************************************************************)
(* Bytes and hashes                                                        *)
(***************************************************************************)

RECURSIVE BigEndianOf(_, _)
BigEndianOf(x, n) ==
  IF n = 0 THEN << >>
  ELSE Append(BigEndianOf(x \div ByteBase, n - 1), x % ByteBase)

(* The big-endian encoding of x in n bytes. *)
BigEndian(x, n) == With([v \in {x} |-> BigEndianOf(v, n)])

RECURSIVE BigEndianValueTo(_, _)
BigEndianValueTo(bytes, n) ==
  IF n = 0 THEN 0 ELSE BigEndianValueTo(bytes, n - 1) * ByteBase + bytes[n]

(* binary.BigEndian.Uint64: the value of a byte string read big-endian. *)
BigEndianValue(bytes) == With([b \in {bytes} |-> BigEndianValueTo(b, Len(b))])

(* G1.Bytes, G2.Bytes, Gt.Bytes: a fixed-length encoding of the element. *)
GBytes(g) == BigEndian(g, 3)

(* Zr.Bytes: a fixed-length encoding of the (possibly unreduced) scalar. *)
ZrBytes(x) == BigEndian(x, 4)

RECURSIVE ConcatTo(_, _)
ConcatTo(list, n) == IF n = 0 THEN << >> ELSE ConcatTo(list, n - 1) \o list[n]

(* The concatenation of a list of byte strings: successive h.Write calls. *)
Concat(list) == With([l \in {list} |-> ConcatTo(l, Len(l))])

DigestLen == 4

DigestSpace == ByteBase * ByteBase * ByteBase * ByteBase

RECURSIVE BlockSize(_, _)
BlockSize(len, size) == IF size >= len THEN size ELSE BlockSize(len, 2 * size)

(* The compression of SHA-256 over the block of size bytes at start: a byte
   counts as itself plus one, padding as zero, and a block mixes the values of
   its two halves. *)
RECURSIVE Compress(_, _, _)
Compress(bytes, start, size) ==
  IF start > Len(bytes) THEN 0
  ELSE IF size = 1 THEN bytes[start] + 1
  ELSE (Compress(bytes, start, size \div 2) * 37
        + Compress(bytes, start + size \div 2, size \div 2) * 11 + 5) % DigestSpace

(* sha256.New(); h.Write(in); h.Sum(nil): a digest of DigestLen bytes. *)
Sha256(in) ==
  With([bytes \in {in} |->
    BigEndian((Compress(bytes, 1, BlockSize(Len(bytes), 1)) * 29 + Len(bytes) + 113)
              % DigestSpace, DigestLen)])

(* The limbs of q, least significant first: q = QLimb1 * LimbBase + QLimb0. *)
LimbBase == ByteBase * ByteBase

QLimb0 == Q % LimbBase

QLimb1 == Q \div LimbBase

(* feFrom256Bits panics with "input should be 32 bytes". *)
feFrom256BitsPanics(bytes) == Len(bytes) # DigestLen

(* The element whose limbs are the digest's words, the first word being the
   most significant limb. *)
feFromBigEndianLimbs(bytes) ==
  With([b \in {bytes} |->
    LET z0 == BigEndianValue(SubSeq(b, 3, 4))
        z1 == BigEndianValue(SubSeq(b, 1, 2)) % QLimb1
    IN  z1 * LimbBase + z0])

(* feFrom256Bits: the element whose limbs are the digest's words, the first
   word being the least significant limb; the top limb is reduced modulo the
   top limb of q and q is subtracted once if the value is not below q. *)
feFrom256Bits(bytes) ==
  With([b \in {bytes} |->
    LET z0 == BigEndianValue(SubSeq(b, 1, 2))
        z1 == BigEndianValue(SubSeq(b, 3, 4)) % QLimb1
    IN  IF z1 < QLimb1 \/ (z1 = QLimb1 /\ z0 < QLimb0)
        THEN z1 * LimbBase + z0
        ELSE (z1 * LimbBase + z0 + LimbBase * LimbBase - Q) % (LimbBase * LimbBase)])

(* The Montgomery radix 2^256 modulo q, scaled: LimbBase^2 modulo Q. *)
MontR == (LimbBase * LimbBase) % Q

(* FieldElementFromBytes: fe.ToBigIntRegular takes the limbs out of Montgomery
   form, i.e. multiplies by the inverse of the radix. *)
FieldElementFromBytes(digest) == (feFrom256Bits(digest) * inverse(MontR)) % Q

(* hashToZr(in...): SHA-256 of the concatenation, as a scalar. *)
hashToZr(in) == FieldElementFromBytes(Sha256(Concat(in)))

(* curve.HashToG1(digest): a point of G1 other than the identity. *)
HashToG1(digest) == 1 + (BigEndianValue(digest) % (Q - 1))

(* bn254.HashToCurveG2Svdw(digest): a point of G2 other than the identity. *)
HashToG2(digest) == 1 + ((BigEndianValue(digest) * 7 + 5) % (Q - 1))

(* common.h = HashToG1(sha256Digest("DualDory")); H() copies it. *)
H == HashToG1(Sha256(<<1, 3, 0, 2>>))

(***************************************************************************)
(* Package tag                                                             *)
(***************************************************************************)

(* A commitment that leaves the blinding term H*r out. *)
CommitUnblinded(sk, r) == GMul(GenG1, sk)

(* tag.Commit(sk) with w.R = r drawn: com = g1*sk + H*r. *)
Commit(sk, r) == GAdd(GMul(GenG1, sk), GMul(H, r))

(* A tag that leaves the key out. *)
TagOfPrefix(sk, prefix) == HashToG1(Sha256(prefix))

(* tag.Tag(sk, prefix) = HashToG1(sha256(prefix)) * sk. *)
Tag(sk, prefix) == GMul(HashToG1(Sha256(prefix)), sk)

(* A hash context that puts its length ahead of every additional element. *)
buildHashContextDelimited(A, B, additionalContext) ==
  <<GBytes(A), GBytes(B)>>
    \o [i \in 1 .. Len(additionalContext) |->
          <<Len(additionalContext[i])>> \o additionalContext[i]]

(* buildHashContext(A, B, additionalContext). *)
buildHashContext(A, B, additionalContext) ==
  <<GBytes(A), GBytes(B)>> \o additionalContext

(* tag.NewProof(prefix, sk, w, additionalContext...) with ar, br drawn. *)
NewProof(prefix, sk, wR, ar, br, additionalContext) ==
  LET A == GMul(HashToG1(Sha256(prefix)), ar)
      B == GAdd(GMul(GenG1, ar), GMul(H, br))
  IN  With([c \in {hashToZr(buildHashContext(A, B, additionalContext))} |->
        [A |-> A, B |-> B,
         a |-> ZrPlus(ar, ZrMul(sk, c)),
         b |-> ZrPlus(br, ZrMul(wR, c))]])

(* A verifier that does not compare the tag relation. *)
TagRelationSkipped(p, tag, prefix, c) == TRUE

(* Proof.Verify: the tag relation is compared first. *)
TagRelationHolds(p, tag, prefix, c) ==
  GMul(HashToG1(Sha256(prefix)), p.a) = GAdd(GMul(tag, c), p.A)

CommitmentRelationHolds(p, com, c) ==
  GAdd(GMul(GenG1, p.a), GMul(H, p.b)) = GAdd(p.B, GMul(com, c))

(* tag.Proof.Verify(tag, com, prefix, additionalContext...). *)
ProofVerify(p, tag, com, prefix, additionalContext) ==
  With([c \in {hashToZr(buildHashContext(p.A, p.B, additionalContext))} |->
    IF ~TagRelationHolds(p, tag, prefix, c) THEN "tag proof mismatch"
    ELSE IF ~CommitmentRelationHolds(p, com, c) THEN "commitment proof mismatch"
    ELSE Nil])

(***************************************************************************)
(* Package common: vectors of group elements                               *)
(***************************************************************************)

(* G1v.Add, G2v.Add: pointwise, over the receiver's length. *)
VAdd(v, w) == [i \in 1 .. Len(v) |-> GAdd(v[i], w[i])]

(* G1v.Neg. *)
VNeg(v) == [i \in 1 .. Len(v) |-> GSub(0, v[i])]

(* G1v.Mul, G2v.Mul: every entry times the same scalar. *)
VMul(v, x) == [i \in 1 .. Len(v) |-> GMul(v[i], x)]

(* G2v.Mulv: entry i times x[i]. *)
Mulv(v, x) == [i \in 1 .. Len(v) |-> GMul(v[i], x[i])]

(* G1v{g}.Duplicate(n), G2v{g}.Duplicate(n). *)
Duplicate(g, n) == [i \in 1 .. n |-> g]

(* G1v.Bytes, G2v.Bytes: the entries' encodings, concatenated. *)
VBytes(v) == Concat([i \in 1 .. Len(v) |-> GBytes(v[i])])

RECURSIVE SumTo(_, _)
SumTo(v, n) == IF n = 0 THEN 0 ELSE GAdd(SumTo(v, n - 1), v[n])

(* G2v.Sum. *)
VSum(v) == SumTo(v, Len(v))

(* G1v.InnerProd(g2v) panics: "length mismatch" or "empty vectors". *)
InnerProdPanics(g1v, g2v) == Len(g1v) # Len(g2v) \/ Len(g1v) = 0 \/ Len(g2v) = 0

(* G1v.InnerProd(g2v): the product of the pairings; it panics on vectors of
   different lengths and on empty vectors. *)
InnerProd(g1v, g2v) ==
  IF Len(g1v) # Len(g2v) \/ Len(g1v) = 0 THEN Panic
  ELSE SumTo([i \in 1 .. Len(g1v) |-> e(g1v[i], g2v[i])], Len(g1v))

(***************************************************************************)
(* Package dory                                                            *)
(***************************************************************************)

(* {byte(n), byte(n >> 8)}. *)
TwoBytes(n) == <<n % ByteBase, (n \div ByteBase) % ByteBase>>

(* []byte("Dory"). *)
DoryLabel == <<1, 3, 2, 0>>

psuedoRandomG1(n, i) == HashToG1(Sha256(DoryLabel \o TwoBytes(n) \o TwoBytes(i)))

psuedoRandomG2(n, i) == HashToG2(Sha256(DoryLabel \o TwoBytes(n) \o TwoBytes(i)))

randomG1Vector(n) == [i \in 1 .. n |-> psuedoRandomG1(n, i - 1)]

randomG2Vector(n) == [i \in 1 .. n |-> psuedoRandomG2(n, i - 1)]

(* mulGt(xs...). *)
mulGt(xs) == SumTo(xs, Len(xs))

(* A nil *math.Gt. *)
NilGt == 0 - 1

(* ReducePP{}: no vectors and no cross terms. *)
EmptyReducePP ==
  [Gamma1Prime |-> << >>, Gamma2Prime |-> << >>,
   Delta1R |-> NilGt, Delta1L |-> NilGt, Delta2R |-> NilGt, Delta2L |-> NilGt]

(* PP.reducePP(n) for generators gamma1, gamma2. *)
reducePP(gamma1, gamma2, n) ==
  IF n = 1 THEN EmptyReducePP
  ELSE With([Gamma1Prime \in {randomG1Vector(n \div 2)},
             Gamma2Prime \in {randomG2Vector(n \div 2)} |->
         LET m == n \div 2
         IN  [Gamma1Prime |-> Gamma1Prime, Gamma2Prime |-> Gamma2Prime,
              Delta1L |-> InnerProd(SubSeq(gamma1, 1, m), Gamma2Prime),
              Delta1R |-> InnerProd(SubSeq(gamma1, m + 1, Len(gamma1)), Gamma2Prime),
              Delta2L |-> InnerProd(Gamma1Prime, SubSeq(gamma2, 1, m)),
              Delta2R |-> InnerProd(Gamma1Prime, SubSeq(gamma2, m + 1, Len(gamma2)))]])

(* ReducePP.Digest. *)
ReducePPDigest(rpp) ==
  Sha256(VBytes(rpp.Gamma1Prime) \o VBytes(rpp.Gamma2Prime) \o GBytes(rpp.Delta1R)
         \o GBytes(rpp.Delta1L) \o GBytes(rpp.Delta2R) \o GBytes(rpp.Delta2L))

(* PP.Digest(prevDigest) of parameters whose digest is not set yet. *)
PPDigest(gamma1, gamma2, chi, rpp, prevDigest) ==
  Sha256(prevDigest
         \o (IF Len(gamma1) # 1 /\ Len(gamma2) # 1 THEN ReducePPDigest(rpp) ELSE << >>)
         \o GBytes(chi) \o VBytes(gamma1) \o VBytes(gamma2))

(* The PP built from generators: chi, the reduction parameters, the digest. *)
MakePP(gamma1, gamma2, n, prevDigest) ==
  With([g1 \in {gamma1}, g2 \in {gamma2} |->
    With([rpp \in {reducePP(g1, g2, n)} |->
      [digest |-> PPDigest(g1, g2, InnerProd(g1, g2), rpp, prevDigest),
       Gamma1 |-> g1, Gamma2 |-> g2, chi |-> InnerProd(g1, g2),
       Gamma1Prime |-> rpp.Gamma1Prime, Gamma2Prime |-> rpp.Gamma2Prime,
       Delta1R |-> rpp.Delta1R, Delta1L |-> rpp.Delta1L,
       Delta2R |-> rpp.Delta2R, Delta2L |-> rpp.Delta2L]])])

(* NewPublicParams(n). *)
NewPublicParams(n) == MakePP(randomG1Vector(n), randomG2Vector(n), n, << >>)

(* pp.NewPublicParams(n): the next level, made of pp's reduction generators. *)
NextPublicParams(pp, n) == MakePP(pp.Gamma1Prime, pp.Gamma2Prime, n, pp.digest)

(* A chain that is not extended below the first level. *)
ChainOfOne(pp, n) == <<pp>>

RECURSIVE ChainFrom(_, _)
ChainFrom(pp, n) ==
  IF n \div 2 = 0 THEN <<pp>>
  ELSE With([p \in {pp} |->
         <<p>> \o ChainFrom(NextPublicParams(p, n \div 2), n \div 2)])

(* GeneratePublicParams(n), n a power of two. *)
GeneratePublicParams(n) == ChainFrom(NewPublicParams(n), n)

(* PP.reducePP(n) panics in one of its four inner products. *)
reducePPPanics(gamma1, gamma2, n) ==
  /\ n # 1
  /\ LET m == n \div 2
     IN  \/ InnerProdPanics(SubSeq(gamma1, 1, m), randomG2Vector(m))
         \/ InnerProdPanics(SubSeq(gamma1, m + 1, Len(gamma1)), randomG2Vector(m))
         \/ InnerProdPanics(randomG1Vector(m), SubSeq(gamma2, 1, m))
         \/ InnerProdPanics(randomG1Vector(m), SubSeq(gamma2, m + 1, Len(gamma2)))

(* Building the PP of generators panics: in chi or in reducePP. *)
MakePPPanics(gamma1, gamma2, n) ==
  InnerProdPanics(gamma1, gamma2) \/ reducePPPanics(gamma1, gamma2, n)

(* NewPublicParams(n) panics. *)
NewPublicParamsPanics(n) == MakePPPanics(randomG1Vector(n), randomG2Vector(n), n)

(* pp.NewPublicParams(n) panics, pp having generators of length len and the
   reduction generators reducePP(len) gave it: in its check of the lengths or
   in building the next level. *)
NextPublicParamsPanics(len, n) ==
  \/ len # 2 * n
  \/ MakePPPanics(randomG1Vector(len \div 2), randomG2Vector(len \div 2), n)

(* The loop of GeneratePublicParams panics, pp having generators of length n. *)
RECURSIVE ChainFromPanics(_)
ChainFromPanics(n) ==
  IF n \div 2 = 0 THEN FALSE
  ELSE NextPublicParamsPanics(n, n \div 2) \/ ChainFromPanics(n \div 2)

(* GeneratePublicParams(n) panics. *)
GeneratePublicParamsPanics(n) == NewPublicParamsPanics(n) \/ (n > 0 /\ ChainFromPanics(n))

(* dory.Commit(v1, v2, pp): the commitment (the witness is (v1, v2)). *)
DoryCommit(v1, v2, pp) ==
  [C |-> InnerProd(v1, v2), D1 |-> InnerProd(v1, pp.Gamma2), D2 |-> InnerProd(pp.Gamma1, v2)]

(* The step-1 fields with the commitment ahead of the four products. *)
Step1BytesCommitmentFirst(x) ==
  <<x.ppDigest, GBytes(x.C), GBytes(x.D1), GBytes(x.D2),
    GBytes(x.D1L), GBytes(x.D1R), GBytes(x.D2L), GBytes(x.D2R)>>

(* ReduceProverStep1Elements.Bytes. *)
Step1Bytes(x) ==
  <<x.ppDigest, GBytes(x.D1L), GBytes(x.D1R), GBytes(x.D2L), GBytes(x.D2R),
    GBytes(x.C), GBytes(x.D1), GBytes(x.D2)>>

(* ReduceProverStep1Elements.RO sets x.digest and returns the challenge. *)
Step1Digest(x) == Sha256(Concat(Step1Bytes(x)))

(* ReduceProverStep2Elements.Bytes (it panics on an empty step-1 digest). *)
Step2Bytes(x) == <<GBytes(x.Cplus), GBytes(x.Cminus), x.ReduceProverStep1ElementsDigest>>

(* ReduceProverStep2Elements.RO. *)
Step2RO(x) == FieldElementFromBytes(Sha256(Concat(Step2Bytes(x))))

(* A next commitment whose C' leaves the factor chi out. *)
NextCommitmentWithoutChi(pp, commitment, s1, Cplus, Cminus, alpha, beta) ==
  LET inverse_alpha == inverse(alpha)
      inverse_beta == inverse(beta)
  IN  [C  |-> mulGt(<<commitment.C, GMul(commitment.D2, beta),
                      GMul(commitment.D1, inverse_beta), GMul(Cplus, alpha),
                      GMul(Cminus, inverse_alpha)>>),
       D1 |-> mulGt(<<GMul(s1.D1L, alpha), s1.D1R,
                      GMul(GMul(pp.Delta1L, alpha), beta), GMul(pp.Delta1R, beta)>>),
       D2 |-> mulGt(<<GMul(s1.D2L, inverse_alpha), s1.D2R,
                      GMul(GMul(pp.Delta2L, inverse_alpha), inverse_beta),
                      GMul(pp.Delta2R, inverse_beta)>>)]

(* The commitment of the next level, as reduce and verifyReduce compute it. *)
NextCommitment(pp, commitment, s1, Cplus, Cminus, alpha, beta) ==
  LET inverse_alpha == inverse(alpha)
      inverse_beta == inverse(beta)
  IN  [C  |-> mulGt(<<commitment.C, pp.chi, GMul(commitment.D2, beta),
                      GMul(commitment.D1, inverse_beta), GMul(Cplus, alpha),
                      GMul(Cminus, inverse_alpha)>>),
       D1 |-> mulGt(<<GMul(s1.D1L, alpha), s1.D1R,
                      GMul(GMul(pp.Delta1L, alpha), beta), GMul(pp.Delta1R, beta)>>),
       D2 |-> mulGt(<<GMul(s1.D2L, inverse_alpha), s1.D2R,
                      GMul(GMul(pp.Delta2L, inverse_alpha), inverse_beta),
                      GMul(pp.Delta2R, inverse_beta)>>)]

(* A base case that holds both vectors of the witness in E1. *)
ScalarProductProofJoined(pp, w) == [PP |-> <<pp>>, E1 |-> w.V1 \o w.V2, E2 |-> w.V2]

(* ScalarProductProof(pp, w); the pointer PP is <<pp>>, and << >> when nil. *)
ScalarProductProof(pp, w) == [PP |-> <<pp>>, E1 |-> w.V1, E2 |-> w.V2]

(* reduce(pps, w, commitment): the step-1 and step-2 elements of every round
   and the scalar-product proof of the last witness. *)
RECURSIVE reduce(_, _, _)
reduce(pps, w, commitment) ==
  LET pp == pps[1]
      m == Len(pp.Gamma1) \div 2
      s1 == [ppDigest |-> pp.digest, C |-> commitment.C, D1 |-> commitment.D1,
             D2 |-> commitment.D2,
             D1L |-> InnerProd(SubSeq(w.V1, 1, m), pp.Gamma2Prime),
             D1R |-> InnerProd(SubSeq(w.V1, m + 1, Len(w.V1)), pp.Gamma2Prime),
             D2L |-> InnerProd(pp.Gamma1Prime, SubSeq(w.V2, 1, m)),
             D2R |-> InnerProd(pp.Gamma1Prime, SubSeq(w.V2, m + 1, Len(w.V2)))]
  IN  With([digest \in {Step1Digest(s1)} |->
        LET beta == FieldElementFromBytes(digest)
            v1 == VAdd(w.V1, VMul(pp.Gamma1, beta))
            v2 == VAdd(w.V2, VMul(pp.Gamma2, inverse(beta)))
            v1L == SubSeq(v1, 1, m)
            v1R == SubSeq(v1, m + 1, Len(v1))
            v2L == SubSeq(v2, 1, m)
            v2R == SubSeq(v2, m + 1, Len(v2))
            Cplus == InnerProd(v1L, v2R)
            Cminus == InnerProd(v1R, v2L)
            s2 == [ReduceProverStep1ElementsDigest |-> digest,
                   Cplus |-> Cplus, Cminus |-> Cminus]
        IN  With([alpha \in {Step2RO(s2)} |->
              With([nextWitness \in {[V1 |-> VAdd(VMul(v1L, alpha), v1R),
                                      V2 |-> VAdd(VMul(v2L, inverse(alpha)), v2R)]},
                    nextCommitment \in {NextCommitment(pp, commitment, s1, Cplus,
                                                       Cminus, alpha, beta)} |->
                IF m = 1
                THEN [Step1Elements |-> <<s1 @@ [digest |-> digest]>>,
                      Step2Elements |-> <<s2>>,
                      ScalarProductProofElements |->
                        ScalarProductProof(pps[2], nextWitness)]
                ELSE With([rest \in {reduce(Tail(pps), nextWitness, nextCommitment)} |->
                       [Step1Elements |->
                          <<s1 @@ [digest |-> digest]>> \o rest.Step1Elements,
                        Step2Elements |-> <<s2>> \o rest.Step2Elements,
                        ScalarProductProofElements |->
                          rest.ScalarProductProofElements]])])])])

(* Reduce(pps, w, commitment). *)
Reduce(pps, w, commitment) ==
  With([chain \in {pps}, wit \in {w}, cmt \in {commitment} |-> reduce(chain, wit, cmt)])

(* ScalarProductProofElements.Verify(cmt) with d drawn: it dereferences the
   PP the proof carries and the first entries of E1, E2 and of PP's generators. *)
ScalarProductVerify(sppe, cmt, d) ==
  IF Len(sppe.PP) = 0 \/ Len(sppe.E1) = 0 \/ Len(sppe.E2) = 0 THEN Panic
  ELSE IF Len(sppe.PP[1].Gamma1) = 0 \/ Len(sppe.PP[1].Gamma2) = 0 THEN Panic
  ELSE LET PP == sppe.PP[1]
           dInv == inverse(d)
           leftEq == e(GAdd(sppe.E1[1], GMul(PP.Gamma1[1], d)),
                       GAdd(sppe.E2[1], GMul(PP.Gamma2[1], inverse(d))))
           rightEq == mulGt(<<PP.chi, cmt.C, GMul(cmt.D2, d), GMul(cmt.D1, dInv)>>)
       IN  IF leftEq = rightEq THEN Nil ELSE "proof invalid"

(* verifyReduce(pps, commitment, fromProver1, fromProver2, finalProof). *)
RECURSIVE verifyReduce(_, _, _, _, _, _)
verifyReduce(pps, commitment, fromProver1, fromProver2, finalProof, d) ==
  IF Len(pps) = 1 THEN ScalarProductVerify(finalProof, commitment, d)
  ELSE IF Len(pps) = 0 \/ Len(fromProver1) = 0 \/ Len(fromProver2) = 0 THEN Panic
  ELSE LET pp == pps[1]
           s1 == [ppDigest |-> pp.digest, C |-> commitment.C, D1 |-> commitment.D1,
                  D2 |-> commitment.D2, D1L |-> fromProver1[1].D1L,
                  D1R |-> fromProver1[1].D1R, D2L |-> fromProver1[1].D2L,
                  D2R |-> fromProver1[1].D2R]
       IN  With([digest \in {Step1Digest(s1)} |->
             LET beta == FieldElementFromBytes(digest)
                 s2 == [ReduceProverStep1ElementsDigest |-> digest,
                        Cminus |-> fromProver2[1].Cminus, Cplus |-> fromProver2[1].Cplus]
             IN  With([alpha \in {Step2RO(s2)} |->
                   With([nextCommitment \in
                           {NextCommitment(pp, commitment, s1, s2.Cplus, s2.Cminus,
                                           alpha, beta)} |->
                     verifyReduce(Tail(pps), nextCommitment, Tail(fromProver1),
                                  Tail(fromProver2), finalProof, d)])])])

(* VerifyReduce(pps, commitment, proof). *)
VerifyReduce(pps, commitment, proof, d) ==
  With([chain \in {pps}, cmt \in {commitment}, p \in {proof} |->
    verifyReduce(chain, cmt, p.Step1Elements, p.Step2Elements,
                 p.ScalarProductProofElements, d)])

(* reduce panics in its first InnerProd ("empty vectors") when m is 0, the
   generators being of length 1. *)
reducePanics(pp) == Len(pp.Gamma1) \div 2 = 0

(* One call of reduce up to its recursive call: what it sends (step1, step2),
   the challenges, the next witness and the next commitment, with the witness
   and the commitment it was given. *)
reduceRound(pp, w, commitment) ==
  LET m == Len(pp.Gamma1) \div 2
  IN  With([s1 \in {[ppDigest |-> pp.digest, C |-> commitment.C, D1 |-> commitment.D1,
                     D2 |-> commitment.D2,
                     D1L |-> InnerProd(SubSeq(w.V1, 1, m), pp.Gamma2Prime),
                     D1R |-> InnerProd(SubSeq(w.V1, m + 1, Len(w.V1)), pp.Gamma2Prime),
                     D2L |-> InnerProd(pp.Gamma1Prime, SubSeq(w.V2, 1, m)),
                     D2R |-> InnerProd(pp.Gamma1Prime, SubSeq(w.V2, m + 1, Len(w.V2)))]} |->
        With([digest \in {Step1Digest(s1)} |->
          With([beta \in {FieldElementFromBytes(digest)} |->
            With([v1 \in {VAdd(w.V1, VMul(pp.Gamma1, beta))},
                  v2 \in {VAdd(w.V2, VMul(pp.Gamma2, inverse(beta)))} |->
              With([s2 \in {[ReduceProverStep1ElementsDigest |-> digest,
                             Cplus |-> InnerProd(SubSeq(v1, 1, m), SubSeq(v2, m + 1, Len(v2))),
                             Cminus |-> InnerProd(SubSeq(v1, m + 1, Len(v1)), SubSeq(v2, 1, m))]} |->
                With([alpha \in {Step2RO(s2)} |->
                  [witness |-> w,
                   commitment |-> commitment,
                   step1 |-> s1 @@ [digest |-> digest],
                   step2 |-> s2,
                   beta |-> beta,
                   alpha |-> alpha,
                   nextWitness |->
                     [V1 |-> VAdd(VMul(SubSeq(v1, 1, m), alpha), SubSeq(v1, m + 1, Len(v1))),
                      V2 |-> VAdd(VMul(SubSeq(v2, 1, m), inverse(alpha)),
                                  SubSeq(v2, m + 1, Len(v2)))],
                   nextCommitment |->
                     NextCommitment(pp, commitment, s1, s2.Cplus, s2.Cminus, alpha, beta)]])])])])])])

(* One call of verifyReduce with more than one level left, up to its recursive
   call: the challenges it recomputes and the next commitment. *)
verifyRound(pp, commitment, fromProver1, fromProver2) ==
  With([s1 \in {[ppDigest |-> pp.digest, C |-> commitment.C, D1 |-> commitment.D1,
                 D2 |-> commitment.D2, D1L |-> fromProver1.D1L, D1R |-> fromProver1.D1R,
                 D2L |-> fromProver1.D2L, D2R |-> fromProver1.D2R]} |->
    With([digest \in {Step1Digest(s1)} |->
      With([beta \in {FieldElementFromBytes(digest)},
            alpha \in {Step2RO([ReduceProverStep1ElementsDigest |-> digest,
                                Cminus |-> fromProver2.Cminus,
                                Cplus |-> fromProver2.Cplus])} |->
        [beta |-> beta,
         alpha |-> alpha,
         nextCommitment |->
           NextCommitment(pp, commitment, s1, fromProver2.Cplus, fromProver2.Cminus,
                          alpha, beta)]])])])

(* asn1.Marshal of one field: a tag, the length, the content. *)
Der(tag, content) == With([c \in {content} |-> <<tag>> \o BigEndian(Len(c), 5) \o c])

(* asn1.Marshal of a [][]byte: a SEQUENCE of OCTET STRINGs. *)
DerList(list) == Der(1, Concat([i \in 1 .. Len(list) |-> Der(0, list[i])]))

(* ScalarProductProofElements.Bytes: P1 and P2 stay empty, PP is not encoded. *)
SppeBytes(sppe) == DerList(<<<< >>, << >>, VBytes(sppe.E1), VBytes(sppe.E2)>>)

(* Proof.Bytes panics when a step-2 element holds no step-1 digest. *)
ProofBytesPanics(proof) ==
  \E i \in 1 .. Len(proof.Step2Elements) :
     Len(proof.Step2Elements[i].ReduceProverStep1ElementsDigest) = 0

(* Proof.Bytes: asn1.Marshal(RawProof{Step1Elements, Step2Elements,
   ScalarProductProofElements}). *)
ProofBytes(proof) ==
  Der(1, Der(1, Concat([i \in 1 .. Len(proof.Step1Elements) |->
                          DerList(Step1Bytes(proof.Step1Elements[i]))]))
         \o Der(1, Concat([i \in 1 .. Len(proof.Step2Elements) |->
                             DerList(Step2Bytes(proof.Step2Elements[i]))]))
         \o Der(0, SppeBytes(proof.ScalarProductProofElements)))

(* Proof.Digest: the receiver is a copy, so the digest is computed on every call. *)
ProofDigest(proof) == Sha256(ProofBytes(proof))

(***************************************************************************)
(* Package threshold                                                       *)
(***************************************************************************)

(* KeyGen: the public key of sk. *)
PublicKeyOf(sk) == GMul(GenG1, sk)

(* PreProcessedParams.computeDigest(doryParams). *)
computeDigest(D, A0Inverse, Gamma2, H1, doryParams) ==
  Sha256(GBytes(D) \o GBytes(A0Inverse) \o GBytes(Gamma2) \o VBytes(H1)
         \o doryParams[Len(doryParams)].digest)

(* ComputePreProcessedParams(doryParams, ring), with the chain it was made for:
   the PublicParams of the ring. *)
ComputePreProcessedParams(doryParams, ring) ==
  With([chain \in {doryParams}, pks \in {ring} |->
    LET pp == chain[1]
        A0Inverse == GSub(0, InnerProd(pks, pp.Gamma2))
        H1 == Duplicate(H, Len(pks))
        D == InnerProd(H1, pp.Gamma2)
        Gamma2 == VSum(pp.Gamma2)
    IN  [digest |-> computeDigest(D, A0Inverse, Gamma2, H1, chain),
         A0Inverse |-> A0Inverse, D |-> D, Gamma2 |-> Gamma2, H1 |-> H1,
         DoryParams |-> chain]])

(* ComputePreProcessedParams(doryParams, ring) panics: no first level, or in
   one of its inner products with the first level's generators. *)
ComputePreProcessedParamsPanics(doryParams, ring) ==
  \/ Len(doryParams) = 0
  \/ InnerProdPanics(ring, doryParams[1].Gamma2)
  \/ InnerProdPanics(Duplicate(H, Len(ring)), doryParams[1].Gamma2)

(* The first index holding g1*sk, and the first index of the ring when none
   does. *)
locatePKOrFirst(sk, ring) ==
  IF \E i \in 1 .. Len(ring) : ring[i] = PublicKeyOf(sk)
  THEN CHOOSE i \in 1 .. Len(ring) :
         /\ ring[i] = PublicKeyOf(sk)
         /\ \A k \in 1 .. (i - 1) : ring[k] # PublicKeyOf(sk)
  ELSE 1

(* key.locatePK(ring): the first index holding g1*sk; 0 stands for the panic
   "PK not found within ring". *)
locatePK(sk, ring) ==
  IF \E i \in 1 .. Len(ring) : ring[i] = PublicKeyOf(sk)
  THEN CHOOSE i \in 1 .. Len(ring) :
         /\ ring[i] = PublicKeyOf(sk)
         /\ \A k \in 1 .. (i - 1) : ring[k] # PublicKeyOf(sk)
  ELSE 0

(* negZr(x) = ModSub(0, x, q). *)
negZr(x) == (Q - (x % Q)) % Q

RECURSIVE PlusTo(_, _)
PlusTo(in, n) == IF n = 1 THEN in[1] ELSE ZrPlus(PlusTo(in, n - 1), in[n])

(* sumZr(in...): the sum of one or more scalars, reduced. *)
sumZr(in) == ZrMod(PlusTo(in, Len(in)))

(* An element put at the end, whatever the index. *)
embedAtEnd(a, element, index) == Append(a, element)

(* embedInVec(a, element, index): a with element put in at index. *)
embedInVec(a, element, index) ==
  [i \in 1 .. (Len(a) + 1) |->
     IF i = index THEN element ELSE IF i < index THEN a[i] ELSE a[i - 1]]

RECURSIVE computeYTo(_, _, _, _, _, _)
computeYTo(y, c, com, ring, skip, n) ==
  IF n = 0 THEN GMul(H, y)
  ELSE IF n = skip THEN computeYTo(y, c, com, ring, skip, n - 1)
  ELSE GAdd(computeYTo(y, c, com, ring, skip, n - 1),
            GMul(GSub(ring[n], com), c[IF n < skip THEN n ELSE n - 1]))

(* computeY(y, c, com, ring, skip). *)
computeY(y, c, com, ring, skip) == computeYTo(y, c, com, ring, skip, Len(ring))

(* key.RingProof(pp, ring, r, com) with y and the n-1 challenges c drawn: the
   signature without its tag and tag proof. *)
RingProof(sk, pp, ring, r, com, y, c) ==
  LET n == Len(ring)
      dpp == pp.DoryParams[1]
      A == GAdd(e(com, pp.Gamma2), pp.A0Inverse)
      pkIndex == locatePK(sk, ring)
      Y == computeY(y, c, com, ring, pkIndex)
  IN  With([h \in {hashToZr(<<GBytes(A), GBytes(Y), pp.digest>>)} |->
        LET cj == ZrMod(ZrPlus(h, negZr(sumZr(c))))
            z == ZrMod(ZrPlus(y, ZrMul(cj, r)))
            G2c == Mulv(Duplicate(GenG2, n), embedInVec(c, cj, pkIndex))
            C == e(GSub(GMul(H, z), Y), GenG2)
            E == e(GMul(H, h), GenG2)
            B == InnerProd(dpp.Gamma1, G2c)
        IN  [TagCommitment |-> com,
             DoryProof1 |-> Reduce(pp.DoryParams,
                                   [V1 |-> VAdd(VNeg(ring), Duplicate(com, n)), V2 |-> G2c],
                                   [C |-> C, D1 |-> A, D2 |-> B]),
             DoryProof2 |-> Reduce(pp.DoryParams,
                                   [V1 |-> pp.H1, V2 |-> G2c],
                                   [C |-> E, D1 |-> pp.D, D2 |-> B]),
             Z |-> z, Y |-> Y, B |-> B]])

(* key.Sign(pp, m, prefix, ring) with the randomness rnd = (r, y, c, ar, br). *)
Sign(sk, pp, m, prefix, ring, rnd) ==
  With([sigma \in {RingProof(sk, pp, ring, rnd.r, Commit(sk, rnd.r), rnd.y, rnd.c)} |->
    sigma @@ [TagValue |-> Tag(sk, prefix),
              TagProof |-> NewProof(prefix, sk, rnd.r, rnd.ar, rnd.br,
                                    <<m, ProofDigest(sigma.DoryProof1),
                                      ProofDigest(sigma.DoryProof2)>>)]])

(* key.RingProof(pp, ring, r, com) panics: no room for the n-1 challenges, the
   signer's key is not in the ring, or Reduce panics on the first level. *)
RingProofPanics(sk, pp, ring) ==
  \/ Len(ring) = 0
  \/ locatePK(sk, ring) = 0
  \/ reducePanics(pp.DoryParams[1])

(* key.Sign(pp, m, prefix, ring) panics: its RingProof does. *)
SignPanics(sk, pp, ring) == RingProofPanics(sk, pp, ring)

(* key.RingProof up to its check of the challenges: the index of the signer's
   key, Y, h, the signer's challenge cj, z, the challenges after embedInVec and
   whether the call panics with "sum of c isn't h". *)
RingProofLocals(sk, pp, ring, r, com, y, c) ==
  LET A == GAdd(e(com, pp.Gamma2), pp.A0Inverse)
      pkIndex == locatePK(sk, ring)
  IN  With([Y \in {computeY(y, c, com, ring, pkIndex)} |->
        With([h \in {hashToZr(<<GBytes(A), GBytes(Y), pp.digest>>)} |->
          With([cj \in {ZrMod(ZrPlus(h, negZr(sumZr(c))))} |->
            [pkIndex |-> pkIndex, Y |-> Y, h |-> h, cj |-> cj,
             z |-> ZrMod(ZrPlus(y, ZrMul(cj, r))),
             c |-> embedInVec(c, cj, pkIndex),
             panics |-> sumZr(embedInVec(c, cj, pkIndex)) # h]])])])

(* key.PreProcessRingProof(pp, ring) with r, y and c drawn: r and the signature
   without its tag and tag proof. *)
PreProcessRingProof(sk, pp, ring, rnd) ==
  [r |-> rnd.r,
   sig |-> RingProof(sk, pp, ring, rnd.r, Commit(sk, rnd.r), rnd.y, rnd.c)]

(* key.AppendTagProof(sigma, r, m, prefix) with ar and br drawn: sigma with its
   TagValue and TagProof set. *)
AppendTagProof(sk, sigma, r, m, prefix, ar, br) ==
  With([sig \in {sigma} |->
    [TagValue |-> Tag(sk, prefix),
     TagProof |-> NewProof(prefix, sk, r, ar, br,
                           <<m, ProofDigest(sig.DoryProof1),
                             ProofDigest(sig.DoryProof2)>>)] @@ sig])

(* RingSignature.Verify, its three checks.  The Dory commitments (C, A, B) and
   (E, D, B) the two goroutines verify: *)
VerifyCommitment1(rs, pp) ==
  [C  |-> e(GSub(GMul(H, rs.Z), rs.Y), GenG2),
   D1 |-> GAdd(e(rs.TagCommitment, pp.Gamma2), pp.A0Inverse),
   D2 |-> rs.B]

VerifyCommitment2(rs, pp) ==
  LET A == GAdd(e(rs.TagCommitment, pp.Gamma2), pp.A0Inverse)
      h == hashToZr(<<GBytes(A), GBytes(rs.Y), pp.digest>>)
  IN  [C |-> e(GMul(H, h), GenG2), D1 |-> pp.D, D2 |-> rs.B]

(* The first goroutine's call, d being the scalar VerifyReduce draws. *)
DoryCheck1(rs, pp, d) ==
  VerifyReduce(pp.DoryParams, VerifyCommitment1(rs, pp), rs.DoryProof1, d)

(* The second goroutine's call. *)
DoryCheck2(rs, pp, d) ==
  VerifyReduce(pp.DoryParams, VerifyCommitment2(rs, pp), rs.DoryProof2, d)

(* A tag check that passes the two digests in the other order. *)
TagCheckDigestsSwapped(rs, m, prefix) ==
  IF ProofBytesPanics(rs.DoryProof1) \/ ProofBytesPanics(rs.DoryProof2) THEN Panic
  ELSE ProofVerify(rs.TagProof, rs.TagValue, rs.TagCommitment, prefix,
                   <<m, ProofDigest(rs.DoryProof2), ProofDigest(rs.DoryProof1)>>)

(* The calling goroutine's rs.TagProof.Verify(rs.TagValue, rs.TagCommitment,
   prefix, m, rs.DoryProof1.Digest(), rs.DoryProof2.Digest()). *)
TagCheck(rs, m, prefix) ==
  IF ProofBytesPanics(rs.DoryProof1) \/ ProofBytesPanics(rs.DoryProof2) THEN Panic
  ELSE ProofVerify(rs.TagProof, rs.TagValue, rs.TagCommitment, prefix,
                   <<m, ProofDigest(rs.DoryProof1), ProofDigest(rs.DoryProof2)>>)

(* A first goroutine that stores nothing. *)
FirstDoryErrorDropped(err) == Nil

(* What each task stores in atomicErr when its check returns err. *)
FirstDoryError(err) == IF err # Nil THEN "first Dory proof invalid" ELSE Nil

SecondDoryError(err) == IF err # Nil THEN "second Dory proof invalid" ELSE Nil

(* A caller that stores the tag verifier's own error. *)
TagErrorPropagated(err) == err

TagError(err) == IF err # Nil THEN "tag proof invalid" ELSE Nil

(* A write-once slot: the first stored value stays. *)
StoreOnce(slot, err) == IF slot = Nil THEN err ELSE slot

(* atomic.Value.Store(err): the slot holds the value stored last. *)
Store(slot, err) == err

(* A wait that does not block. *)
WaitPassesAtOnce(counter) == TRUE

(* wg.Wait() returns once the counter is zero. *)
WaitPasses(counter) == counter = 0

(* The results of the three checks of rs.Verify, for every d the two
   goroutines can draw. *)
DoryResults1(rs, pp) == {DoryCheck1(rs, pp, d) : d \in Draws}

DoryResults2(rs, pp) == {DoryCheck2(rs, pp, d) : d \in Draws}

(* The values rs.Verify(pp, m, prefix) can return: a panic of any task ends the
   process; otherwise nil when no task stored, else what was stored last, which
   may be the error of any failing task. *)
VerifyOutcomes(rs, pp, m, prefix) ==
  With([t \in {TagCheck(rs, m, prefix)}, R1 \in {DoryResults1(rs, pp)},
        R2 \in {DoryResults2(rs, pp)} |->
    UNION { LET stored == {FirstDoryError(r[1]), SecondDoryError(r[2]), TagError(t)}
                          \ {Nil}
            IN  IF Panic \in {r[1], r[2], t} THEN {Panic}
                ELSE IF stored = {} THEN {Nil}
                ELSE stored
            : r \in R1 \X R2 }])

(* The message with its two counts exchanged. *)
DistinctSignersErrorSwapped(distinct, total) ==
  "signature set was signed by " \o ToString(total) \o " out of "
  \o ToString(distinct) \o " distinct signers"

(* fmt.Errorf("signature set was signed by %d out of %d distinct signers", ...). *)
DistinctSignersError(distinct, total) ==
  "signature set was signed by " \o ToString(distinct) \o " out of "
  \o ToString(total) \o " distinct signers"

(* A map keyed by the tag commitments instead of the tag values. *)
TagEncodingsOfCommitments(signatures) ==
  {GBytes(signatures[i].TagCommitment) : i \in 1 .. Len(signatures)}

(* The map of tag encodings VerifyThresholdSignatures builds. *)
TagEncodings(signatures) ==
  {GBytes(signatures[i].TagValue) : i \in 1 .. Len(signatures)}

(***************************************************************************)
(* State                                                                   *)
(***************************************************************************)

VARIABLES
  tagPhase,   \* position of the tag-proof run: "start", "committed", "proved", "verified"
  tagKey,     \* sk, the witness w.R and the commitment com of the tag-proof run
  tagProof,   \* the proof of the tag-proof run, with the prefix and context it was made for
  tagCall,    \* the arguments and the result of the Proof.Verify call
  keys,       \* the private keys of the ring members
  ring,       \* the ring: their public keys
  pp,         \* the PublicParams computed for the ring
  msg,        \* the message handed to the verifier
  sigs,       \* the signatures at hand, in the order they will be handed over
  forged,     \* forged[i]: sigs[i] was altered after it was signed
  phase,      \* "build", "verify" (rs.Verify runs), "threshold" (VerifyThresholdSignatures runs)
  main,       \* position of the calling goroutine in the call under way
  tasks,      \* position of each goroutine the call spawned
  errs,       \* the local err of each goroutine, "pending" until its check returned
  tagErr,     \* the local err of the caller's TagProof.Verify
  wg,         \* the WaitGroup counter of the call
  atomicErr,  \* the atomic.Value of the call; Nil while nothing is stored
  stores,     \* history: the errors stored into atomicErr, in order
  ret,        \* the value the call returned, "pending" before it returns
  crashed,    \* a goroutine panicked: the process is gone
  doryPhase,  \* position of the Dory run: "start", "params", "committed", "proved", "verified"
  dLength,    \* the n the Dory run's parameters were generated for
  dChain,     \* the chain of public parameters of the Dory run
  dWitness,   \* the committed vectors (v1, v2)
  dCommitment, \* their commitment (C, D1, D2)
  dTrace,     \* the rounds reduce has gone through, one record for each
  dMade,      \* what made dProof: "none", "Reduce", "ScalarProductProof", "panic"
  dProof,     \* the proof at hand
  dSwapped,   \* the PP reference inside dProof was replaced after the proof was made
  vTrace,     \* the commitments verifyReduce has gone through, level by level
  dVerdict,   \* what VerifyReduce returned, "pending" before
  sPhase,     \* position of the signing run: "start", "preprocessed", "first", "second",
              \* "tampered", "checked", "verified"
  sPartial,   \* what PreProcessRingProof returned, with the inputs of the call
  sFirst,     \* the first signature, with the inputs of the calls that made it
  sSecond,    \* a second signature, made by Sign
  sTampered,  \* the first signature and its message as altered on the way
  sCheck,     \* the verifier's results for the signature handed to it
  rpPhase,    \* position of the RingProof run: "start", "ring", "returned"
  rpRing,     \* the keys, the ring and the parameters of the RingProof run
  rpCall,     \* the inputs, the draws, the local values and the result of RingProof
  feCall,     \* the FieldElementFromBytes call: its input, whether it panicked, its result
  fatalCall   \* the call of the fatal-error runs: its inputs, whether it panicked, its result

tagVars == <<tagPhase, tagKey, tagProof, tagCall>>

setupVars == <<keys, ring, pp>>

callVars == <<phase, main, tasks, errs, tagErr, wg, atomicErr, stores, ret, crashed>>

doryVars == <<doryPhase, dLength, dChain, dWitness, dCommitment, dTrace, dMade, dProof, dSwapped,
              vTrace, dVerdict>>

signVars == <<sPhase, sPartial, sFirst, sSecond, sTampered, sCheck>>

rpVars == <<rpPhase, rpRing, rpCall>>

unitVars == <<feCall, fatalCall>>

ringVars == <<keys, ring, pp, msg, sigs, forged, phase, main, tasks, errs, tagErr, wg,
              atomicErr, stores, ret, crashed>>

vars == <<tagPhase, tagKey, tagProof, tagCall, keys, ring, pp, msg, sigs, forged, phase,
          main, tasks, errs, tagErr, wg, atomicErr, stores, ret, crashed, doryVars, signVars, rpVars, unitVars>>

(* What the tag-proof run leaves alone, and what the ring-signature run does. *)
offTag == <<ringVars, doryVars, signVars, rpVars, unitVars>>

offRing == <<tagVars, doryVars, signVars, rpVars, unitVars>>

(* Epoch prefixes and additional-context lists of the tag-proof runs. *)
Prefixes == {<<1, 2, 3>>, <<3, 2, 1>>}

Contexts == {<< >>, <<<<1>>, <<2, 3>>>>, <<<<1, 2>>, <<3>>>>, <<<<2>>>>, <<<<2>>, << >>>>}

NoKey == [sk |-> 0, r |-> 0, com |-> 0]

NoProof == [prefix |-> << >>, context |-> << >>, tag |-> 0,
            proof |-> [A |-> 0, B |-> 0, a |-> 0, b |-> 0]]

NoCall == [prefix |-> << >>, context |-> << >>, err |-> Nil]

Pending == "pending"

TagIdle ==
  /\ tagPhase = "start"
  /\ tagKey = NoKey
  /\ tagProof = NoProof
  /\ tagCall = NoCall

NoVerdict == [d |-> 0, err |-> Pending]

DoryIdle ==
  /\ doryPhase = "start"
  /\ dLength = 0
  /\ dChain = << >>
  /\ dWitness = << >>
  /\ dCommitment = << >>
  /\ dTrace = << >>
  /\ dMade = "none"
  /\ dProof = << >>
  /\ dSwapped = FALSE
  /\ vTrace = << >>
  /\ dVerdict = NoVerdict

SignIdle ==
  /\ sPhase = "start"
  /\ sPartial = << >>
  /\ sFirst = << >>
  /\ sSecond = << >>
  /\ sTampered = << >>
  /\ sCheck = << >>

RingProofIdle ==
  /\ rpPhase = "start"
  /\ rpRing = << >>
  /\ rpCall = << >>

UnitIdle ==
  /\ feCall = << >>
  /\ fatalCall = << >>

NoCallUnderWay ==
  /\ phase = "build"
  /\ main = "idle"
  /\ tasks = << >>
  /\ errs = << >>
  /\ tagErr = Pending
  /\ wg = 0
  /\ atomicErr = Nil
  /\ stores = << >>
  /\ ret = Pending
  /\ crashed = FALSE

TagInit ==
  /\ TagIdle
  /\ DoryIdle
  /\ SignIdle
  /\ RingProofIdle
  /\ UnitIdle
  /\ keys = << >>
  /\ ring = << >>
  /\ pp = << >>
  /\ msg = << >>
  /\ sigs = << >>
  /\ forged = << >>
  /\ NoCallUnderWay

(***************************************************************************)
(* The tag proof on its own (TestTagProof)                                 *)
(***************************************************************************)

(* sk := NewRandomZr; w, com := Commit(sk). *)
TagCommit(sk, r) ==
  /\ tagPhase = "start"
  /\ tagPhase' = "committed"
  /\ tagKey' = [sk |-> sk, r |-> r, com |-> Commit(sk, r)]
  /\ UNCHANGED <<tagProof, tagCall>>
  /\ UNCHANGED offTag

(* tag := Tag(sk, prefix); proof := NewProof(prefix, sk, w, context...). *)
TagProve(prefix, context, ar, br) ==
  /\ tagPhase = "committed"
  /\ tagPhase' = "proved"
  /\ tagProof' = [prefix |-> prefix, context |-> context,
                  tag |-> Tag(tagKey.sk, prefix),
                  proof |-> NewProof(prefix, tagKey.sk, tagKey.r, ar, br, context)]
  /\ UNCHANGED <<tagKey, tagCall>>
  /\ UNCHANGED offTag

(* err := proof.Verify(tag, com, prefix, context...). *)
TagVerify(prefix, context) ==
  /\ tagPhase = "proved"
  /\ tagPhase' = "verified"
  /\ tagCall' = [prefix |-> prefix, context |-> context,
                 err |-> ProofVerify(tagProof.proof, tagProof.tag, tagKey.com,
                                     prefix, context)]
  /\ UNCHANGED <<tagKey, tagProof>>
  /\ UNCHANGED offTag

TagNext ==
  \/ \E sk \in Zr, r \in Draws : TagCommit(sk, r)
  \/ \E prefix \in Prefixes, context \in Contexts, ar \in Draws, br \in Draws :
       TagProve(prefix, context, ar, br)
  \/ \E prefix \in Prefixes, context \in Contexts : TagVerify(prefix, context)

SpecTag == TagInit /\ [][TagNext]_vars

(***************************************************************************)
(* Ring signatures: signing, forging, rs.Verify and                        *)
(* VerifyThresholdSignatures with their goroutines                         *)
(***************************************************************************)

LogN == 1

MaxSigs == 2

(* The ring has 2^LogN members (TestThresholdRingSignature has four). *)
RingSize == 2 ^ LogN

SignedMsg == <<1, 2>>

OtherMsg == <<2, 1>>

ThePrefix == <<1, 2, 3>>

(* KeyGen for every member: the private keys the run uses. *)
RingKeys(n) == [i \in 1 .. n |-> i]

(* What rand.Reader yields to the k-th Sign call on a ring of n: r, y, the n-1
   challenges c, ar and br, in the order they are drawn. *)
CallRandomness(k, n) ==
  [r |-> k, y |-> k + 1, c |-> [i \in 1 .. (n - 1) |-> k + 1 + i],
   ar |-> k + n + 1, br |-> k + n + 2]

(* What an adversary does to a signature before handing it over. *)
ForgeKinds == {"B", "Z", "Y", "TagValue", "TagProof.a", "TagProof.b",
               "no step elements", "no step-1 digest", "no E1", "no PP"}

Forge(rs, kind) ==
  CASE kind = "B" -> [rs EXCEPT !.B = GAdd(@, 1)]
    [] kind = "Z" -> [rs EXCEPT !.Z = ZrMod(@ + 1)]
    [] kind = "Y" -> [rs EXCEPT !.Y = GAdd(@, 1)]
    [] kind = "TagValue" -> [rs EXCEPT !.TagValue = GAdd(@, 1)]
    [] kind = "TagProof.a" -> [rs EXCEPT !.TagProof.a = @ + 1]
    [] kind = "TagProof.b" -> [rs EXCEPT !.TagProof.b = @ + 1]
    [] kind = "no step elements" ->
         [rs EXCEPT !.DoryProof1.Step1Elements = << >>,
                    !.DoryProof1.Step2Elements = << >>]
    [] kind = "no step-1 digest" ->
         [rs EXCEPT !.DoryProof2.Step2Elements[1].ReduceProverStep1ElementsDigest = << >>]
    [] kind = "no E1" -> [rs EXCEPT !.DoryProof2.ScalarProductProofElements.E1 = << >>]
    [] kind = "no PP" -> [rs EXCEPT !.DoryProof1.ScalarProductProofElements.PP = << >>]

Last(seq) == seq[Len(seq)]

Untouched == msg = SignedMsg /\ \A i \in 1 .. Len(forged) : ~forged[i]

RingInit ==
  /\ TagIdle
  /\ DoryIdle
  /\ SignIdle
  /\ RingProofIdle
  /\ UnitIdle
  /\ keys = RingKeys(RingSize)
  /\ ring = [i \in 1 .. RingSize |-> PublicKeyOf(RingKeys(RingSize)[i])]
  /\ pp = ComputePreProcessedParams(GeneratePublicParams(RingSize),
                                    [i \in 1 .. RingSize |-> PublicKeyOf(RingKeys(RingSize)[i])])
  /\ msg = SignedMsg
  /\ sigs = << >>
  /\ forged = << >>
  /\ NoCallUnderWay

(* sigma := keys[j].Sign(pp, msg, prefix, ring). *)
SignCall(j) ==
  /\ phase = "build"
  /\ Len(sigs) < MaxSigs
  /\ sigs' = Append(sigs, Sign(keys[j], pp, SignedMsg, ThePrefix, ring,
                               CallRandomness(Len(sigs) + 1, Len(ring))))
  /\ forged' = Append(forged, FALSE)
  /\ UNCHANGED <<offRing, setupVars, msg, callVars>>

(* The same signature is handed over once more. *)
HandOverAgain(i) ==
  /\ phase = "build"
  /\ Len(sigs) < MaxSigs
  /\ sigs' = Append(sigs, sigs[i])
  /\ forged' = Append(forged, forged[i])
  /\ UNCHANGED <<offRing, setupVars, msg, callVars>>

(* The adversary alters the signature signed last. *)
ForgeLast(kind) ==
  /\ phase = "build"
  /\ Len(sigs) > 0
  /\ Untouched
  /\ sigs' = [sigs EXCEPT ![Len(sigs)] = Forge(@, kind)]
  /\ forged' = [forged EXCEPT ![Len(sigs)] = TRUE]
  /\ UNCHANGED <<offRing, setupVars, msg, callVars>>

(* The verifier is given another message than the signed one. *)
AlterMessage ==
  /\ phase = "build"
  /\ Len(sigs) > 0
  /\ Untouched
  /\ msg' = OtherMsg
  /\ UNCHANGED <<offRing, setupVars, sigs, forged, callVars>>

(* err := sigs[last].Verify(pp, msg, prefix) starts: wg.Add(2), the empty
   atomicErr, the two goroutines. *)
VerifyCall ==
  /\ phase = "build"
  /\ Len(sigs) > 0
  /\ phase' = "verify"
  /\ main' = "tag"
  /\ tasks' = <<"run", "run">>
  /\ errs' = <<Pending, Pending>>
  /\ wg' = 2
  /\ atomicErr' = Nil
  /\ UNCHANGED <<offRing, setupVars, msg, sigs, forged, tagErr, stores, ret, crashed>>

(* Goroutine g of rs.Verify runs VerifyReduce on its Dory proof, d being the
   scalar the scalar-product check draws. *)
CheckDory(g, d) ==
  /\ phase = "verify"
  /\ ~crashed
  /\ tasks[g] = "run"
  /\ LET err == IF g = 1 THEN DoryCheck1(Last(sigs), pp, d)
                ELSE DoryCheck2(Last(sigs), pp, d)
         toStore == IF g = 1 THEN FirstDoryError(err) ELSE SecondDoryError(err)
     IN  IF err = Panic
         THEN /\ crashed' = TRUE
              /\ tasks' = [tasks EXCEPT ![g] = "panic"]
              /\ UNCHANGED errs
         ELSE /\ errs' = [errs EXCEPT ![g] = err]
              /\ tasks' = [tasks EXCEPT ![g] = IF toStore # Nil THEN "store" ELSE "exit"]
              /\ UNCHANGED crashed
  /\ UNCHANGED <<offRing, setupVars, msg, sigs, forged, phase, main, tagErr, wg,
                 atomicErr, stores, ret>>

(* Goroutine g of VerifyThresholdSignatures runs sigs[g].Verify(pp, msg, prefix),
   whatever it returns. *)
CheckSignature(g) ==
  /\ phase = "threshold"
  /\ ~crashed
  /\ tasks[g] = "run"
  /\ \E res \in VerifyOutcomes(sigs[g], pp, msg, ThePrefix) :
       IF res = Panic
       THEN /\ crashed' = TRUE
            /\ tasks' = [tasks EXCEPT ![g] = "panic"]
            /\ UNCHANGED errs
       ELSE /\ errs' = [errs EXCEPT ![g] = res]
            /\ tasks' = [tasks EXCEPT ![g] = IF res # Nil THEN "store" ELSE "exit"]
            /\ UNCHANGED crashed
  /\ UNCHANGED <<offRing, setupVars, msg, sigs, forged, phase, main, tagErr, wg,
                 atomicErr, stores, ret>>

(* What goroutine g stores: rs.Verify's goroutines a fresh error naming their
   proof, those of VerifyThresholdSignatures the err they got. *)
ErrorToStore(g) ==
  IF phase = "verify"
  THEN IF g = 1 THEN FirstDoryError(errs[g]) ELSE SecondDoryError(errs[g])
  ELSE errs[g]

(* atomicErr.Store(...) of goroutine g. *)
StoreError(g) ==
  /\ ~crashed
  /\ tasks[g] = "store"
  /\ atomicErr' = Store(atomicErr, ErrorToStore(g))
  /\ stores' = Append(stores, ErrorToStore(g))
  /\ tasks' = [tasks EXCEPT ![g] = "exit"]
  /\ UNCHANGED <<offRing, setupVars, msg, sigs, forged, phase, main, errs, tagErr, wg,
                 ret, crashed>>

(* The deferred wg.Done() of goroutine g. *)
Done(g) ==
  /\ ~crashed
  /\ tasks[g] = "exit"
  /\ wg' = wg - 1
  /\ tasks' = [tasks EXCEPT ![g] = "done"]
  /\ UNCHANGED <<offRing, setupVars, msg, sigs, forged, phase, main, errs, tagErr,
                 atomicErr, stores, ret, crashed>>

(* The caller of rs.Verify runs rs.TagProof.Verify on the two proof digests. *)
CheckTag ==
  /\ phase = "verify"
  /\ ~crashed
  /\ main = "tag"
  /\ LET err == TagCheck(Last(sigs), msg, ThePrefix)
     IN  IF err = Panic
         THEN /\ crashed' = TRUE
              /\ main' = "panic"
              /\ UNCHANGED tagErr
         ELSE /\ tagErr' = err
              /\ main' = IF TagError(err) # Nil THEN "store" ELSE "wait"
              /\ UNCHANGED crashed
  /\ UNCHANGED <<offRing, setupVars, msg, sigs, forged, phase, tasks, errs, wg,
                 atomicErr, stores, ret>>

(* atomicErr.Store(fmt.Errorf("tag proof invalid")) of the caller. *)
StoreTagError ==
  /\ ~crashed
  /\ main = "store"
  /\ atomicErr' = Store(atomicErr, TagError(tagErr))
  /\ stores' = Append(stores, TagError(tagErr))
  /\ main' = "wait"
  /\ UNCHANGED <<offRing, setupVars, msg, sigs, forged, phase, tasks, errs, tagErr, wg,
                 ret, crashed>>

(* wg.Wait() returns and the call returns atomicErr.Load(). *)
WaitReturn ==
  /\ ~crashed
  /\ main = "wait"
  /\ WaitPasses(wg)
  /\ ret' = atomicErr
  /\ main' = "returned"
  /\ UNCHANGED <<offRing, setupVars, msg, sigs, forged, phase, tasks, errs, tagErr, wg,
                 atomicErr, stores, crashed>>

(* err := VerifyThresholdSignatures(pp, msg, prefix, sigs...) starts: it returns
   at once on repeated tags, else wg.Add(len(sigs)) and one goroutine each. *)
ThresholdCall ==
  /\ phase = "build"
  /\ phase' = "threshold"
  /\ IF Cardinality(TagEncodings(sigs)) # Len(sigs)
     THEN /\ ret' = DistinctSignersError(Cardinality(TagEncodings(sigs)), Len(sigs))
          /\ main' = "returned"
          /\ UNCHANGED <<tasks, errs, wg, atomicErr>>
     ELSE /\ main' = "wait"
          /\ tasks' = [i \in 1 .. Len(sigs) |-> "run"]
          /\ errs' = [i \in 1 .. Len(sigs) |-> Pending]
          /\ wg' = Len(sigs)
          /\ atomicErr' = Nil
          /\ UNCHANGED ret
  /\ UNCHANGED <<offRing, setupVars, msg, sigs, forged, tagErr, stores, crashed>>

Next ==
  \/ \E j \in 1 .. Len(ring) : SignCall(j)
  \/ \E i \in 1 .. Len(sigs) : HandOverAgain(i)
  \/ \E kind \in ForgeKinds : ForgeLast(kind)
  \/ AlterMessage
  \/ VerifyCall
  \/ \E g \in 1 .. Len(tasks), d \in Draws : CheckDory(g, d)
  \/ CheckTag
  \/ StoreTagError
  \/ ThresholdCall
  \/ \E g \in 1 .. Len(tasks) : CheckSignature(g)
  \/ \E g \in 1 .. Len(tasks) : StoreError(g)
  \/ \E g \in 1 .. Len(tasks) : Done(g)
  \/ WaitReturn

Spec == RingInit /\ [][Next]_vars

(***************************************************************************)
(* Dory on its own: parameters, Commit, Reduce round by round,             *)
(* ScalarProductProof and VerifyReduce level by level (TestDoryReduce,     *)
(* TestScalarProductProof)                                                 *)
(***************************************************************************)

MaxLogN == 2

(* The vector lengths of the runs: the powers of two up to 2^MaxLogN. *)
DoryLengths == {2 ^ k : k \in 0 .. MaxLogN}

(* The vectors a run commits to. *)
Vectors(n) == {[i \in 1 .. n |-> (a * i + b) % Q] : a \in Draws, b \in Draws}

SwapKinds == {"nil", "first level", "fresh"}

offDory == <<tagVars, ringVars, signVars, rpVars, unitVars>>

DoryInit == TagInit

(* pps := GeneratePublicParams(n). *)
DoryParams(n) ==
  /\ doryPhase = "start"
  /\ doryPhase' = "params"
  /\ dLength' = n
  /\ dChain' = GeneratePublicParams(n)
  /\ UNCHANGED <<dWitness, dCommitment, dTrace, dMade, dProof, dSwapped, vTrace, dVerdict>>
  /\ UNCHANGED offDory

(* cmt, witness := Commit(v1, v2, pps[0]). *)
DoryCommitVectors ==
  /\ doryPhase = "params"
  /\ doryPhase' = "committed"
  /\ \E v1 \in Vectors(Len(dChain[1].Gamma1)), v2 \in Vectors(Len(dChain[1].Gamma1)) :
       /\ dWitness' = [V1 |-> v1, V2 |-> v2]
       /\ dCommitment' = DoryCommit(v1, v2, dChain[1])
  /\ UNCHANGED <<dLength, dChain, dTrace, dMade, dProof, dSwapped, vTrace, dVerdict>>
  /\ UNCHANGED offDory

(* The witness and the commitment the next call of reduce is given. *)
CurrentWitness == IF dTrace = << >> THEN dWitness ELSE dTrace[Len(dTrace)].nextWitness

CurrentCommitment ==
  IF dTrace = << >> THEN dCommitment ELSE dTrace[Len(dTrace)].nextCommitment

(* Reduce(pps, witness, cmt), one call of reduce at a time: the call panics, or
   recurses on the next level, or (m = 1) returns with the scalar-product proof
   of the next witness for pps[1], and Reduce puts the proof together. *)
DoryReduceRound ==
  /\ doryPhase = "committed"
  /\ IF reducePanics(dChain[Len(dTrace) + 1])
     THEN /\ doryPhase' = "proved"
          /\ dMade' = "panic"
          /\ UNCHANGED <<dTrace, dProof>>
     ELSE \E rnd \in {reduceRound(dChain[Len(dTrace) + 1], CurrentWitness,
                                  CurrentCommitment)} :
            /\ dTrace' = Append(dTrace, rnd)
            /\ IF Len(dChain[Len(dTrace) + 1].Gamma1) \div 2 = 1
               THEN /\ doryPhase' = "proved"
                    /\ dMade' = "Reduce"
                    /\ dProof' =
                         [Step1Elements |->
                            [i \in 1 .. Len(dTrace) |-> dTrace[i].step1] \o <<rnd.step1>>,
                          Step2Elements |->
                            [i \in 1 .. Len(dTrace) |-> dTrace[i].step2] \o <<rnd.step2>>,
                          ScalarProductProofElements |->
                            ScalarProductProof(dChain[Len(dTrace) + 2], rnd.nextWitness)]
               ELSE UNCHANGED <<doryPhase, dMade, dProof>>
  /\ UNCHANGED <<dLength, dChain, dWitness, dCommitment, dSwapped, vTrace, dVerdict>>
  /\ UNCHANGED offDory

(* proof := ScalarProductProof(PP, witness), for vectors of length 1. *)
DoryScalarProduct ==
  /\ doryPhase = "committed"
  /\ Len(dWitness.V1) = 1
  /\ doryPhase' = "proved"
  /\ dMade' = "ScalarProductProof"
  /\ dProof' = [Step1Elements |-> << >>, Step2Elements |-> << >>,
                ScalarProductProofElements |-> ScalarProductProof(dChain[1], dWitness)]
  /\ UNCHANGED <<dLength, dChain, dWitness, dCommitment, dTrace, dSwapped, vTrace, dVerdict>>
  /\ UNCHANGED offDory

(* The PP a holder of the proof can put into its ScalarProductProofElements. *)
SwappedPP(kind) ==
  CASE kind = "nil" -> << >>
    [] kind = "first level" -> <<dChain[1]>>
    [] kind = "fresh" -> <<NewPublicParams(1)>>

(* The proof is handed to the verifier with another PP reference in it. *)
DorySwapPP(kind) ==
  /\ doryPhase = "proved"
  /\ dMade \in {"Reduce", "ScalarProductProof"}
  /\ ~dSwapped
  /\ vTrace = << >>
  /\ SwappedPP(kind) # dProof.ScalarProductProofElements.PP
  /\ dSwapped' = TRUE
  /\ dProof' = [dProof EXCEPT !.ScalarProductProofElements.PP = SwappedPP(kind)]
  /\ UNCHANGED <<doryPhase, dLength, dChain, dWitness, dCommitment, dTrace, dMade, vTrace, dVerdict>>
  /\ UNCHANGED offDory

(* The commitment the next call of verifyReduce is given. *)
VerifierCommitment == IF vTrace = << >> THEN dCommitment ELSE vTrace[Len(vTrace)]

(* VerifyReduce(pps, cmt, proof), one call of verifyReduce at a time: with one
   level left it returns finalProof.Verify(commitment), where d is drawn;
   otherwise it reads the first elements the prover sent, which panics when
   there are none, and recurses on the next commitment. *)
DoryVerifyRound(d) ==
  /\ doryPhase = "proved"
  /\ dMade \in {"Reduce", "ScalarProductProof"}
  /\ IF Len(dChain) - Len(vTrace) = 1
     THEN /\ doryPhase' = "verified"
          /\ dVerdict' = [d |-> d,
                          err |-> ScalarProductVerify(dProof.ScalarProductProofElements,
                                                      VerifierCommitment, d)]
          /\ UNCHANGED vTrace
     ELSE IF Len(dProof.Step1Elements) <= Len(vTrace)
             \/ Len(dProof.Step2Elements) <= Len(vTrace)
     THEN /\ doryPhase' = "verified"
          /\ dVerdict' = [d |-> d, err |-> Panic]
          /\ UNCHANGED vTrace
     ELSE /\ vTrace' = Append(vTrace,
                              verifyRound(dChain[Len(vTrace) + 1], VerifierCommitment,
                                          dProof.Step1Elements[Len(vTrace) + 1],
                                          dProof.Step2Elements[Len(vTrace) + 1]).nextCommitment)
          /\ UNCHANGED <<doryPhase, dVerdict>>
  /\ UNCHANGED <<dLength, dChain, dWitness, dCommitment, dTrace, dMade, dProof, dSwapped>>
  /\ UNCHANGED offDory

DoryNext ==
  \/ \E n \in DoryLengths : DoryParams(n)
  \/ DoryCommitVectors
  \/ DoryReduceRound
  \/ DoryScalarProduct
  \/ \E kind \in SwapKinds : DorySwapPP(kind)
  \/ \E d \in Draws : DoryVerifyRound(d)

SpecDory == DoryInit /\ [][DoryNext]_vars

(***************************************************************************)
(* Signing: Sign, the split PreProcessRingProof / AppendTagProof, a second *)
(* signature, and what the verifier says of the first one, as signed or    *)
(* altered on the way                                                      *)
(***************************************************************************)

(* The private keys of the rings the signing runs use; a key can be 0. *)
SignerKeys == {<<0, 1>>, <<1, 2>>, <<2, 1>>}

RingOf(ks) == [i \in 1 .. Len(ks) |-> PublicKeyOf(ks[i])]

(* The PublicParams of a ring: the Dory chain and the pre-processed values. *)
ParamsOf(rng) == ComputePreProcessedParams(GeneratePublicParams(Len(rng)), rng)

Messages == {SignedMsg, OtherMsg}

TamperKinds == {"message", "DoryProof1", "DoryProof2", "Dory proofs swapped"}

(* The signature and the message the verifier is handed after tampering. *)
Tamper(sig, m, kind) ==
  CASE kind = "message" ->
         [m |-> IF m = SignedMsg THEN OtherMsg ELSE SignedMsg, sig |-> sig]
    [] kind = "DoryProof1" ->
         [m |-> m, sig |-> [sig EXCEPT !.DoryProof1.Step2Elements[1].Cplus = GAdd(@, 1)]]
    [] kind = "DoryProof2" ->
         [m |-> m,
          sig |-> [sig EXCEPT !.DoryProof2.ScalarProductProofElements.E1[1] = GAdd(@, 1)]]
    [] kind = "Dory proofs swapped" ->
         [m |-> m, sig |-> [sig EXCEPT !.DoryProof1 = sig.DoryProof2,
                                       !.DoryProof2 = sig.DoryProof1]]

offSign == <<tagVars, ringVars, doryVars, rpVars, unitVars>>

SignInit == TagInit

(* sigma := sk.Sign(pp, m, prefix, ring). *)
SignFirst ==
  /\ sPhase = "start"
  /\ sPhase' = "first"
  /\ \E ks \in SignerKeys :
       \E params \in {ParamsOf(RingOf(ks))} :
         \E j \in 1 .. Len(ks), m \in Messages, prefix \in Prefixes, k \in Draws :
           sFirst' = <<[by |-> "Sign", sk |-> ks[j], ring |-> RingOf(ks), pp |-> params,
                        m |-> m, prefix |-> prefix, rnd |-> CallRandomness(k, Len(ks)),
                        sig |-> Sign(ks[j], params, m, prefix, RingOf(ks),
                                     CallRandomness(k, Len(ks)))]>>
  /\ UNCHANGED <<sPartial, sSecond, sTampered, sCheck>>
  /\ UNCHANGED offSign

(* r, sigma := sk.PreProcessRingProof(pp, ring). *)
PreProcess ==
  /\ sPhase = "start"
  /\ sPhase' = "preprocessed"
  /\ \E ks \in SignerKeys :
       \E params \in {ParamsOf(RingOf(ks))} :
         \E j \in 1 .. Len(ks), k \in Draws :
           \E res \in {PreProcessRingProof(ks[j], params, RingOf(ks),
                                           CallRandomness(k, Len(ks)))} :
             sPartial' = <<[sk |-> ks[j], ring |-> RingOf(ks), pp |-> params,
                            rnd |-> CallRandomness(k, Len(ks)),
                            r |-> res.r, sig |-> res.sig]>>
  /\ UNCHANGED <<sFirst, sSecond, sTampered, sCheck>>
  /\ UNCHANGED offSign

(* sk.AppendTagProof(&sigma, r, m, prefix). *)
AppendTag ==
  /\ sPhase = "preprocessed"
  /\ sPhase' = "first"
  /\ \E m \in Messages, prefix \in Prefixes, k \in Draws :
       \E rnd \in {[sPartial[1].rnd EXCEPT
                      !.ar = CallRandomness(k, Len(sPartial[1].ring)).ar,
                      !.br = CallRandomness(k, Len(sPartial[1].ring)).br]} :
         sFirst' = <<[by |-> "split", sk |-> sPartial[1].sk, ring |-> sPartial[1].ring,
                      pp |-> sPartial[1].pp, m |-> m, prefix |-> prefix, rnd |-> rnd,
                      sig |-> AppendTagProof(sPartial[1].sk, sPartial[1].sig,
                                             sPartial[1].r, m, prefix, rnd.ar, rnd.br)]>>
  /\ UNCHANGED <<sPartial, sSecond, sTampered, sCheck>>
  /\ UNCHANGED offSign

(* A second Sign call, of any member of any ring, with fresh randomness. *)
SignSecond ==
  /\ sPhase = "first"
  /\ sFirst[1].by = "Sign"
  /\ sPhase' = "second"
  /\ \E ks \in SignerKeys :
       \E params \in {ParamsOf(RingOf(ks))} :
         \E j \in 1 .. Len(ks), m \in Messages, prefix \in Prefixes :
           sSecond' = <<[by |-> "Sign", sk |-> ks[j], ring |-> RingOf(ks), pp |-> params,
                         m |-> m, prefix |-> prefix,
                         rnd |-> CallRandomness(MaxDraw + 1, Len(ks)),
                         sig |-> Sign(ks[j], params, m, prefix, RingOf(ks),
                                      CallRandomness(MaxDraw + 1, Len(ks)))]>>
  /\ UNCHANGED <<sPartial, sFirst, sTampered, sCheck>>
  /\ UNCHANGED offSign

(* The first signature or its message is altered before the verifier gets it. *)
TamperFirst(kind) ==
  /\ sPhase = "first"
  /\ sPhase' = "tampered"
  /\ sTampered' = <<Tamper(sFirst[1].sig, sFirst[1].m, kind) @@ [kind |-> kind]>>
  /\ UNCHANGED <<sPartial, sFirst, sSecond, sCheck>>
  /\ UNCHANGED offSign

(* err := sigma.Verify(pp, m, prefix) for what the verifier was handed, with
   the err of its TagProof.Verify call. *)
VerifyHanded(sig, m) ==
  \E res \in VerifyOutcomes(sig, sFirst[1].pp, m, sFirst[1].prefix) :
    sCheck' = <<[tagErr |-> TagCheck(sig, m, sFirst[1].prefix), ret |-> res]>>

VerifyFirst ==
  /\ sPhase = "first"
  /\ sPhase' = "verified"
  /\ VerifyHanded(sFirst[1].sig, sFirst[1].m)
  /\ UNCHANGED <<sPartial, sFirst, sSecond, sTampered>>
  /\ UNCHANGED offSign

VerifyTampered ==
  /\ sPhase = "tampered"
  /\ sPhase' = "checked"
  /\ VerifyHanded(sTampered[1].sig, sTampered[1].m)
  /\ UNCHANGED <<sPartial, sFirst, sSecond, sTampered>>
  /\ UNCHANGED offSign

SignNext ==
  \/ SignFirst
  \/ PreProcess
  \/ AppendTag
  \/ SignSecond
  \/ \E kind \in TamperKinds : TamperFirst(kind)
  \/ VerifyFirst
  \/ VerifyTampered

SpecSign == SignInit /\ [][SignNext]_vars

(***************************************************************************)
(* RingProof on its own: the challenges it draws, the signer's own         *)
(* challenge and the vector it commits to                                  *)
(***************************************************************************)

(* The ring lengths of the runs: the powers of two from 2 to 2^MaxLogN. *)
RingLengths == {2 ^ k : k \in 1 .. MaxLogN}

(* The n-1 challenges a run draws. *)
ChallengeDraws(n) == {[i \in 1 .. (n - 1) |-> (a * i + b) % Q] : a \in Draws, b \in Draws}

offRingProof == <<tagVars, ringVars, doryVars, signVars, unitVars>>

RingProofInit == TagInit

(* The ring of n members and its PublicParams. *)
RingProofSetup(n) ==
  /\ rpPhase = "start"
  /\ rpPhase' = "ring"
  /\ rpRing' = <<[keys |-> RingKeys(n), ring |-> RingOf(RingKeys(n)),
                  pp |-> ParamsOf(RingOf(RingKeys(n)))]>>
  /\ UNCHANGED rpCall
  /\ UNCHANGED offRingProof

(* sigma := keys[j].RingProof(pp, ring, r, com) with y and c drawn: it panics
   at its check of the challenges or returns the signature. *)
RingProofCall ==
  /\ rpPhase = "ring"
  /\ rpPhase' = "returned"
  /\ \E j \in 1 .. Len(rpRing[1].keys), k \in Draws, c \in ChallengeDraws(Len(rpRing[1].keys)) :
       \E loc \in {RingProofLocals(rpRing[1].keys[j], rpRing[1].pp, rpRing[1].ring, k,
                                   Commit(rpRing[1].keys[j], k), k + 1, c)} :
         rpCall' = <<[j |-> j, sk |-> rpRing[1].keys[j], r |-> k,
                      com |-> Commit(rpRing[1].keys[j], k), y |-> k + 1, drawn |-> c,
                      locals |-> loc,
                      sig |-> IF loc.panics THEN << >>
                              ELSE <<RingProof(rpRing[1].keys[j], rpRing[1].pp,
                                               rpRing[1].ring, k,
                                               Commit(rpRing[1].keys[j], k), k + 1, c)>>]>>
  /\ UNCHANGED rpRing
  /\ UNCHANGED offRingProof

RingProofNext ==
  \/ \E n \in RingLengths : RingProofSetup(n)
  \/ RingProofCall

SpecRingProof == RingProofInit /\ [][RingProofNext]_vars

(***************************************************************************)
(* FieldElementFromBytes on its own                                        *)
(***************************************************************************)

(* The byte strings of a length. *)
ByteStrings(n) == [1 .. n -> 0 .. (ByteBase - 1)]

(* The lengths of the byte strings handed over: a digest's, one less, one more
   and none. *)
InputLengths == {0, DigestLen - 1, DigestLen, DigestLen + 1}

offFieldElement == <<tagVars, ringVars, doryVars, signVars, rpVars, fatalCall>>

FieldElementInit == TagInit

(* FieldElementFromBytes(bytes): it panics in feFrom256Bits or returns. *)
FieldElementCall(bytes) ==
  /\ feCall = << >>
  /\ feCall' = <<[digest |-> bytes,
                  panicked |-> feFrom256BitsPanics(bytes),
                  result |-> IF feFrom256BitsPanics(bytes) THEN << >>
                             ELSE <<FieldElementFromBytes(bytes)>>]>>
  /\ UNCHANGED offFieldElement

FieldElementNext == \E n \in InputLengths : \E bytes \in ByteStrings(n) : FieldElementCall(bytes)

SpecFieldElement == FieldElementInit /\ [][FieldElementNext]_vars

(***************************************************************************)
(* Calls with arguments that do not fit: GeneratePublicParams,             *)
(* ComputePreProcessedParams and Sign either panic or return               *)
(***************************************************************************)

(* The lengths asked of GeneratePublicParams: 0 up to one more than twice the
   longest ring. *)
ParamLengths == 0 .. (2 ^ (MaxLogN + 1) + 1)

(* The lengths of the rings handed to ComputePreProcessedParams. *)
RingLengthsTried == 0 .. (2 ^ MaxLogN + 1)

offFatal == <<tagVars, ringVars, doryVars, signVars, rpVars, feCall>>

FatalInit == TagInit

(* pps := GeneratePublicParams(n). *)
GenerateCall(n) ==
  /\ fatalCall = << >>
  /\ fatalCall' = <<[op |-> "GeneratePublicParams", n |-> n, ring |-> << >>, sk |-> 0,
                     panicked |-> GeneratePublicParamsPanics(n),
                     returned |-> IF GeneratePublicParamsPanics(n) THEN << >>
                                  ELSE <<GeneratePublicParams(n)>>]>>
  /\ UNCHANGED offFatal

(* ppp := ComputePreProcessedParams(GeneratePublicParams(n), ring) for a ring
   of len members. *)
PreProcessedParamsCall(n, len) ==
  /\ fatalCall = << >>
  /\ \E chain \in {GeneratePublicParams(n)}, rng \in {RingOf(RingKeys(len))} :
       fatalCall' = <<[op |-> "ComputePreProcessedParams", n |-> n, ring |-> rng, sk |-> 0,
                       panicked |-> ComputePreProcessedParamsPanics(chain, rng),
                       returned |-> IF ComputePreProcessedParamsPanics(chain, rng)
                                    THEN << >>
                                    ELSE <<ComputePreProcessedParams(chain, rng)>>]>>
  /\ UNCHANGED offFatal

(* sigma := sk.Sign(pp, msg, prefix, ring) for the ring of n members and its
   PublicParams, sk being any scalar. *)
SignByAnyKey(n, sk, k) ==
  /\ fatalCall = << >>
  /\ \E rng \in {RingOf(RingKeys(n))} :
       \E params \in {ParamsOf(rng)} :
         fatalCall' = <<[op |-> "Sign", n |-> n, ring |-> rng, sk |-> sk,
                         panicked |-> SignPanics(sk, params, rng),
                         returned |-> IF SignPanics(sk, params, rng) THEN << >>
                                      ELSE <<Sign(sk, params, SignedMsg, ThePrefix, rng,
                                                  CallRandomness(k, n))>>]>>
  /\ UNCHANGED offFatal

FatalNext ==
  \/ \E n \in ParamLengths : GenerateCall(n)
  \/ \E n \in DoryLengths, len \in RingLengthsTried : PreProcessedParamsCall(n, len)
  \/ \E n \in RingLengths, sk \in Zr, k \in Draws : SignByAnyKey(n, sk, k)

SpecFatal == FatalInit /\ [][FatalNext]_vars

(***************************************************************************)
(* Properties                                                              *)
(***************************************************************************)

VerifyReturned == phase = "verify" /\ main = "returned"

ThresholdReturned == phase = "threshold" /\ main = "returned"

HonestLast == Len(sigs) > 0 /\ ~forged[Len(sigs)] /\ msg = SignedMsg

NumTags == Cardinality({sigs[i].TagValue : i \in 1 .. Len(sigs)})

AllDone == \A g \in 1 .. Len(tasks) : tasks[g] = "done"

(* C1: a signature made by Sign for a ring member, verified with the same pp,
   message and prefix, makes Verify return nil. *)
C1_SignThenVerify == VerifyReturned /\ HonestLast => ret = Nil

(* C2: VerifyThresholdSignatures returns nil exactly when the tag encodings of
   the signatures are pairwise distinct and the Verify call of every signature
   returned nil, whatever the order in which the goroutines ran. *)
C2_ThresholdNilIff ==
  ThresholdReturned =>
    (ret = Nil <=>
       /\ \A i, j \in 1 .. Len(sigs) :
            i # j => GBytes(sigs[i].TagValue) # GBytes(sigs[j].TagValue)
       /\ \A g \in 1 .. Len(errs) : errs[g] = Nil)

C2_Witness ==
  /\ ThresholdReturned
  /\ Len(sigs) = MaxSigs
  /\ NumTags = Len(sigs)
  /\ \A g \in 1 .. Len(errs) : errs[g] = Nil
  /\ ret = Nil

(* C3: with d < k distinct tags among the k signatures the call has returned
   "signature set was signed by d out of k distinct signers" and no goroutine
   was started nor anything stored, forged signatures or not; the same signature
   twice gives "... 1 out of 2 ...". *)
C3_RepeatedTags ==
  phase = "threshold" /\ NumTags < Len(sigs) =>
    /\ main = "returned"
    /\ ret = "signature set was signed by " \o ToString(NumTags) \o " out of "
             \o ToString(Len(sigs)) \o " distinct signers"
    /\ tasks = << >> /\ errs = << >> /\ stores = << >> /\ wg = 0
    /\ (Len(sigs) = 2 /\ sigs[1] = sigs[2] =>
          ret = "signature set was signed by 1 out of 2 distinct signers")

C3_Witness ==
  /\ phase = "threshold"
  /\ Len(sigs) = 2 /\ sigs[1] = sigs[2] /\ forged[1]
  /\ ret = "signature set was signed by 1 out of 2 distinct signers"

(* C4 as stated: every error Verify returns is one of the two Dory errors or one
   of the tag verifier's two errors, and when only the tag check fails Verify
   returns the tag verifier's own error. *)
C4_TagVerifierError ==
  VerifyReturned /\ ret # Nil =>
    /\ ret \in {"first Dory proof invalid", "second Dory proof invalid",
                "tag proof mismatch", "commitment proof mismatch"}
    /\ (errs[1] = Nil /\ errs[2] = Nil => ret = tagErr)

(* C4, amended: every error Verify returns is "first Dory proof invalid",
   "second Dory proof invalid" or "tag proof invalid"; when only the tag check
   fails, with "tag proof mismatch" or "commitment proof mismatch", Verify
   returns "tag proof invalid". *)
C4_ErrorStrings ==
  VerifyReturned /\ ret # Nil =>
    /\ ret \in {"first Dory proof invalid", "second Dory proof invalid",
                "tag proof invalid"}
    /\ (errs[1] = Nil /\ errs[2] = Nil =>
          /\ tagErr \in {"tag proof mismatch", "commitment proof mismatch"}
          /\ ret = "tag proof invalid")

C4_Witness ==
  /\ VerifyReturned
  /\ errs = <<Nil, Nil>>
  /\ tagErr = "commitment proof mismatch"
  /\ ret = "tag proof invalid"

(* C5: Verify never ends by a panic, whatever the shape of the signature. *)
C5_NoPanic == ~crashed

(* C6: Verify returns nil exactly when the two VerifyReduce calls and
   TagProof.Verify all returned nil, and once an error is stored the slot is
   never empty again. *)
C6_NilIffAllPass ==
  /\ VerifyReturned => (ret = Nil <=> errs[1] = Nil /\ errs[2] = Nil /\ tagErr = Nil)
  /\ phase = "verify" /\ stores # << >> => atomicErr # Nil

C6_Witness ==
  /\ VerifyReturned
  /\ errs[1] # Nil /\ errs[2] = Nil /\ tagErr = Nil
  /\ ret # Nil

(* C7 as stated: the call returns the error that was stored first. *)
C7_FirstStored == main = "returned" /\ stores # << >> => ret = stores[1]

(* C7, amended: every Store replaces what the slot held, so the call returns
   the error that was stored last. *)
C7_LastStored == main = "returned" /\ stores # << >> => ret = stores[Len(stores)]

C7_Witness ==
  /\ main = "returned"
  /\ Len(stores) > 1
  /\ stores[1] # stores[Len(stores)]
  /\ ret = stores[Len(stores)]

(* C8: when Verify or VerifyThresholdSignatures has returned, every goroutine
   it started is done and, in Verify, the tag check has returned. *)
C8_ReturnsAfterAll ==
  main = "returned" => AllDone /\ (phase = "verify" => tagErr # Pending)

C8_Witness ==
  /\ main = "returned"
  /\ Len(tasks) > 1
  /\ AllDone
  /\ Len(stores) > 0

SameCall ==
  /\ tagPhase = "verified"
  /\ tagCall.prefix = tagProof.prefix
  /\ tagCall.context = tagProof.context

OtherPrefix ==
  /\ tagPhase = "verified"
  /\ tagCall.prefix # tagProof.prefix
  /\ tagCall.context = tagProof.context

(* C9: a proof made by NewProof verifies against Tag(sk, prefix) and the
   commitment, with the prefix and the extras it was made for. *)
C9_TagCompleteness == SameCall => tagCall.err = Nil

C9_Witness ==
  /\ SameCall
  /\ tagKey.sk > 1 /\ tagKey.r > 0
  /\ tagCall.context # << >>
  /\ tagCall.err = Nil

C11_Linkability ==
  sPhase = "second" /\ sFirst[1].prefix = sSecond[1].prefix =>
    (sFirst[1].sk = sSecond[1].sk <=> sFirst[1].sig.TagValue = sSecond[1].sig.TagValue)

C11_Witness ==
  /\ sPhase = "second"
  /\ sFirst[1].prefix = sSecond[1].prefix
  /\ sFirst[1].sk = sSecond[1].sk
  /\ sFirst[1].m # sSecond[1].m
  /\ sFirst[1].ring # sSecond[1].ring
  /\ sFirst[1].rnd # sSecond[1].rnd
  /\ sFirst[1].sig.TagCommitment # sSecond[1].sig.TagCommitment
  /\ sFirst[1].sig.TagValue = sSecond[1].sig.TagValue

(* The Fiat-Shamir challenge of the tag proof of sig for the message m. *)
TagChallenge(sig, m) ==
  hashToZr(buildHashContext(sig.TagProof.A, sig.TagProof.B,
                            <<m, ProofDigest(sig.DoryProof1),
                              ProofDigest(sig.DoryProof2)>>))

(* The message or a Dory proof digest was changed, the tag, the tag commitment
   and the tag proof were not, and the changed transcript does not hash to the
   challenge of the signed one. *)
TranscriptChanged ==
  /\ sPhase = "checked"
  /\ sTampered[1].sig.TagProof = sFirst[1].sig.TagProof
  /\ sTampered[1].sig.TagValue = sFirst[1].sig.TagValue
  /\ sTampered[1].sig.TagCommitment = sFirst[1].sig.TagCommitment
  /\ \/ sTampered[1].m # sFirst[1].m
     \/ ProofDigest(sTampered[1].sig.DoryProof1) # ProofDigest(sFirst[1].sig.DoryProof1)
     \/ ProofDigest(sTampered[1].sig.DoryProof2) # ProofDigest(sFirst[1].sig.DoryProof2)
  /\ TagChallenge(sTampered[1].sig, sTampered[1].m)
       # TagChallenge(sFirst[1].sig, sFirst[1].m)

(* C12 as stated: for a signature as signed, TagProof.Verify returns nil for
   the extras msg, Digest(DoryProof1), Digest(DoryProof2); with the message or
   a Dory proof changed, TagProof.Verify and Verify fail. *)
C12_TranscriptBinding ==
  /\ sPhase = "verified" => sCheck[1].tagErr = Nil
  /\ TranscriptChanged => sCheck[1].tagErr # Nil /\ sCheck[1].ret # Nil

(* C12, amended: the same, for a signer whose key and tag commitment are not
   both trivial; with sk = 0 and the commitment the identity, TagProof.Verify
   returns nil for every transcript. *)
C12_BindingUnlessTrivial ==
  /\ sPhase = "verified" => sCheck[1].tagErr = Nil
  /\ TranscriptChanged =>
       IF sFirst[1].sk = 0 /\ sFirst[1].sig.TagCommitment = 0
       THEN sCheck[1].tagErr = Nil
       ELSE /\ sCheck[1].tagErr \in {"tag proof mismatch", "commitment proof mismatch"}
            /\ sCheck[1].ret # Nil

C12_Witness ==
  /\ TranscriptChanged
  /\ sTampered[1].kind = "Dory proofs swapped"
  /\ sFirst[1].sk # 0
  /\ sCheck[1].tagErr = "tag proof mismatch"
  /\ sCheck[1].ret = "tag proof invalid"

HonestDoryRun == doryPhase = "verified" /\ dMade = "Reduce" /\ ~dSwapped

(* C13: for every power of two n >= 1 and vectors of length n committed under
   GeneratePublicParams(n)[0], Reduce returns a proof (it does not panic) and
   VerifyReduce returns nil for that proof. *)
C13_DoryCompleteness ==
  /\ dMade # "panic"
  /\ HonestDoryRun => dVerdict.err = Nil

(* The k with n = 2^k. *)
LogOf(n) == CHOOSE k \in 0 .. n : 2 ^ k = n

(* C14: for n = 2^k the chain has exactly k+1 levels; level l (from 0) has
   generators of length 2^(k-l) and reduction generators of length 2^(k-l-1),
   the last level none at all; the reduction generators of a level are the
   generators of the next. *)
C14_ChainShape ==
  doryPhase # "start" =>
    LET k == LogOf(dLength)
    IN  /\ Len(dChain) = k + 1
        /\ \A l \in 0 .. k :
             /\ Len(dChain[l + 1].Gamma1) = 2 ^ (k - l)
             /\ Len(dChain[l + 1].Gamma2) = 2 ^ (k - l)
             /\ Len(dChain[l + 1].Gamma1Prime) = (IF l = k THEN 0 ELSE 2 ^ (k - l - 1))
             /\ Len(dChain[l + 1].Gamma2Prime) = (IF l = k THEN 0 ELSE 2 ^ (k - l - 1))
        /\ dChain[k + 1].Delta1L = NilGt /\ dChain[k + 1].Delta1R = NilGt
        /\ dChain[k + 1].Delta2L = NilGt /\ dChain[k + 1].Delta2R = NilGt
        /\ \A l \in 1 .. k :
             /\ dChain[l].Gamma1Prime = dChain[l + 1].Gamma1
             /\ dChain[l].Gamma2Prime = dChain[l + 1].Gamma2

C14_Witness ==
  /\ doryPhase = "params"
  /\ dLength = 2 ^ MaxLogN
  /\ Len(dChain) = MaxLogN + 1
  /\ Len(dChain[1].Gamma1Prime) = dLength \div 2
  /\ dChain[Len(dChain)].Gamma1Prime = << >>

(* C15: for n = 2^k with k >= 1, Reduce goes through exactly k calls of
   reduce, the witness halving in each, and returns a proof with k step-1
   elements, k step-2 elements and a base case with |E1| = |E2| = 1 that refers
   to the last level of the chain. *)
C15_ReduceRounds ==
  dLength > 1 =>
    LET k == LogOf(dLength)
    IN  /\ Len(dTrace) <= k
        /\ \A i \in 1 .. Len(dTrace) :
             /\ Len(dTrace[i].witness.V1) = 2 ^ (k - i + 1)
             /\ Len(dTrace[i].witness.V2) = 2 ^ (k - i + 1)
             /\ Len(dTrace[i].nextWitness.V1) = 2 ^ (k - i)
             /\ Len(dTrace[i].nextWitness.V2) = 2 ^ (k - i)
        /\ doryPhase = "committed" => Len(dTrace) < k
        /\ doryPhase \in {"proved", "verified"} =>
             /\ dMade = "Reduce"
             /\ Len(dTrace) = k
             /\ ~dSwapped =>
                  /\ dProof = Reduce(dChain, dWitness, dCommitment)
                  /\ Len(dProof.Step1Elements) = k
                  /\ Len(dProof.Step2Elements) = k
                  /\ Len(dProof.ScalarProductProofElements.E1) = 1
                  /\ Len(dProof.ScalarProductProofElements.E2) = 1
                  /\ dProof.ScalarProductProofElements.PP = <<dChain[k + 1]>>

C15_Witness ==
  /\ doryPhase = "proved"
  /\ dMade = "Reduce"
  /\ ~dSwapped
  /\ dLength = 2 ^ MaxLogN
  /\ Len(dProof.Step1Elements) = MaxLogN
  /\ Len(dProof.Step2Elements) = MaxLogN
  /\ dProof.ScalarProductProofElements.PP = <<dChain[Len(dChain)]>>

(* What AppendTagProof must leave as PreProcessRingProof made it. *)
RingProofFields == {"TagCommitment", "DoryProof1", "DoryProof2", "B", "Z", "Y"}

(* C16: the r PreProcessRingProof returns is the randomness of the
   TagCommitment in the partial signature; AppendTagProof leaves
   TagCommitment, DoryProof1, DoryProof2, B, Z and Y as they were and yields
   what Sign yields for the same inputs and draws; Verify returns nil for the
   signature made in two steps. *)
C16_SplitSigning ==
  /\ sPartial # << >> =>
       sPartial[1].sig.TagCommitment = Commit(sPartial[1].sk, sPartial[1].r)
  /\ sFirst # << >> /\ sPartial # << >> =>
       /\ \A f \in RingProofFields : sFirst[1].sig[f] = sPartial[1].sig[f]
       /\ sFirst[1].sig = Sign(sFirst[1].sk, sFirst[1].pp, sFirst[1].m, sFirst[1].prefix,
                               sFirst[1].ring, sFirst[1].rnd)
  /\ sPhase = "verified" /\ sFirst[1].by = "split" => sCheck[1].ret = Nil

(* C17: the d drawn in the base case is never zero, and for vectors of
   length 1 committed under NewPublicParams(1) the proof made by
   ScalarProductProof verifies for every d drawn. *)
C17_ScalarProductCompleteness ==
  doryPhase = "verified" /\ dMade = "ScalarProductProof" /\ ~dSwapped =>
    dVerdict.d # 0 /\ dVerdict.err = Nil

(* The commitment of round i of the trace fits its witness and level. *)
RoundFits(i) ==
  dTrace[i].commitment =
    DoryCommit(dTrace[i].witness.V1, dTrace[i].witness.V2, dChain[i])

NonZeroChallenges(i) == dTrace[i].alpha # 0 /\ dTrace[i].beta # 0

(* C18: in every round the reduced witness is alpha*v1*[:m] + v1*[m:],
   alpha^-1*v2*[:m] + v2*[m:] with v1* = v1 + beta*Gamma1 and
   v2* = v2 + beta^-1*Gamma2; if the round's commitment fits its witness and
   generators and both challenges are non-zero, the reduced commitment fits
   the reduced witness and the next level's generators; verifyReduce computes
   the same reduced commitment from what the prover sent. *)
C18_RoundInvariant ==
  /\ \A i \in 1 .. Len(dTrace) :
       LET m == Len(dChain[i].Gamma1) \div 2
           v1 == VAdd(dTrace[i].witness.V1, VMul(dChain[i].Gamma1, dTrace[i].beta))
           v2 == VAdd(dTrace[i].witness.V2,
                      VMul(dChain[i].Gamma2, inverse(dTrace[i].beta)))
       IN  /\ dTrace[i].nextWitness.V1 =
                VAdd(VMul(SubSeq(v1, 1, m), dTrace[i].alpha), SubSeq(v1, m + 1, 2 * m))
           /\ dTrace[i].nextWitness.V2 =
                VAdd(VMul(SubSeq(v2, 1, m), inverse(dTrace[i].alpha)),
                     SubSeq(v2, m + 1, 2 * m))
           /\ RoundFits(i) /\ NonZeroChallenges(i) =>
                dTrace[i].nextCommitment =
                  DoryCommit(dTrace[i].nextWitness.V1, dTrace[i].nextWitness.V2,
                             dChain[i + 1])
  /\ \A i \in 1 .. Len(vTrace) : vTrace[i] = dTrace[i].nextCommitment

C18_Witness ==
  /\ Len(dTrace) = MaxLogN
  /\ Len(vTrace) = MaxLogN
  /\ \A i \in 1 .. Len(dTrace) : RoundFits(i) /\ NonZeroChallenges(i)
  /\ dTrace[MaxLogN].nextCommitment =
       DoryCommit(dTrace[MaxLogN].nextWitness.V1, dTrace[MaxLogN].nextWitness.V2,
                  dChain[MaxLogN + 1])
  /\ dTrace[1].witness.V1[1] # dTrace[1].witness.V1[2]
  /\ dTrace[1].witness.V2[1] # dTrace[1].witness.V2[2]

(* C19: after embedInVec the challenges have the ring's length, hold cj at the
   signer's position j and the drawn challenges at the other positions in the
   order drawn; their sum is h modulo q, so RingProof does not panic; Y is
   H*y plus the sum over the positions i other than j of (R[i] - com) times
   the challenge at i; the signature returned is made of these values. *)
C19_SplicedChallenges ==
  rpPhase = "returned" =>
    LET call == rpCall[1]
        R == rpRing[1].ring
        n == Len(R)
        c == call.locals.c
    IN  /\ call.locals.pkIndex = call.j
        /\ Len(c) = n
        /\ c[call.j] = call.locals.cj
        /\ \A i \in 1 .. n :
             /\ i < call.j => c[i] = call.drawn[i]
             /\ i > call.j => c[i] = call.drawn[i - 1]
        /\ SumTo(c, n) % Q = call.locals.h
        /\ ~call.locals.panics
        /\ call.locals.Y =
             GAdd(GMul(H, call.y),
                  SumTo([i \in 1 .. n |->
                           IF i = call.j THEN 0 ELSE GMul(GSub(R[i], call.com), c[i])], n))
        /\ call.sig # << >>
        /\ call.sig[1].Y = call.locals.Y
        /\ call.sig[1].Z = call.locals.z
        /\ call.sig[1].B = InnerProd(rpRing[1].pp.DoryParams[1].Gamma1,
                                     Mulv(Duplicate(GenG2, n), c))

C19_Witness ==
  /\ rpPhase = "returned"
  /\ Len(rpRing[1].ring) = 2 ^ MaxLogN
  /\ rpCall[1].j > 1 /\ rpCall[1].j < Len(rpRing[1].ring)
  /\ rpCall[1].drawn[1] # rpCall[1].drawn[2]
  /\ rpCall[1].locals.c[rpCall[1].j] = rpCall[1].locals.cj
  /\ rpCall[1].locals.cj # rpCall[1].drawn[rpCall[1].j]
  /\ ~rpCall[1].locals.panics

(* C20: the verdict of VerifyReduce does not depend on the PP reference inside
   the proof: with another reference put in, it is the verdict the same proof
   gets with the last level of the verifier's chain. *)
C20_VerdictIgnoresProofPP ==
  doryPhase = "verified" /\ dSwapped =>
    dVerdict.err =
      VerifyReduce(dChain, dCommitment,
                   [dProof EXCEPT !.ScalarProductProofElements.PP =
                                    <<dChain[Len(dChain)]>>],
                   dVerdict.d)

(* The commitment the i-th call of verifyReduce is given and what that call
   computes from the proof's i-th elements. *)
VerifierCommitmentAt(i) == IF i = 1 THEN dCommitment ELSE vTrace[i - 1]

VerifierRoundAt(i) ==
  verifyRound(dChain[i], VerifierCommitmentAt(i), dProof.Step1Elements[i],
              dProof.Step2Elements[i])

(* The step-1 elements of the proof with other values in the fields the prover
   filled in for itself. *)
OtherStep1(s1, g) ==
  [s1 EXCEPT !.ppDigest = Sha256(<<g>>), !.C = g, !.D1 = g + 1, !.D2 = g + 2]

(* C23 as stated: in every round beta is hashed over (level digest, C, D1, D2,
   D1L, D1R, D2L, D2R) and alpha over (step-1 digest, C+, C-), by the prover
   and by the verifier. *)
C23_TranscriptOrder ==
  /\ \A i \in 1 .. Len(dTrace) :
       LET s1 == dTrace[i].step1
           s2 == dTrace[i].step2
       IN  /\ dTrace[i].beta =
                hashToZr(<<dChain[i].digest, GBytes(s1.C), GBytes(s1.D1), GBytes(s1.D2),
                           GBytes(s1.D1L), GBytes(s1.D1R), GBytes(s1.D2L), GBytes(s1.D2R)>>)
           /\ dTrace[i].alpha =
                hashToZr(<<s1.digest, GBytes(s2.Cplus), GBytes(s2.Cminus)>>)
  /\ \A i \in 1 .. Len(vTrace) :
       /\ VerifierRoundAt(i).beta = dTrace[i].beta
       /\ VerifierRoundAt(i).alpha = dTrace[i].alpha

(* C23, amended: in every round beta is hashed over (level digest, D1L, D1R,
   D2L, D2R, C, D1, D2) and alpha over (C+, C-, step-1 digest), the step-1
   digest being the SHA-256 digest beta is reduced from; the prover and the
   verifier hash the same fields in the same order, and the verifier takes the
   level digest from its own chain and C, D1, D2 from its current commitment,
   whatever the proof's step-1 elements hold in these fields. *)
C23_TranscriptOrderOfTheCode ==
  /\ \A i \in 1 .. Len(dTrace) :
       LET s1 == dTrace[i].step1
           s2 == dTrace[i].step2
           c == dTrace[i].commitment
           in1 == <<dChain[i].digest, GBytes(s1.D1L), GBytes(s1.D1R), GBytes(s1.D2L),
                    GBytes(s1.D2R), GBytes(c.C), GBytes(c.D1), GBytes(c.D2)>>
       IN  /\ s1.digest = Sha256(Concat(in1))
           /\ dTrace[i].beta = hashToZr(in1)
           /\ s2.ReduceProverStep1ElementsDigest = s1.digest
           /\ dTrace[i].alpha =
                hashToZr(<<GBytes(s2.Cplus), GBytes(s2.Cminus), s1.digest>>)
  /\ \A i \in 1 .. Len(vTrace) :
       LET p1 == dProof.Step1Elements[i]
           p2 == dProof.Step2Elements[i]
           c == VerifierCommitmentAt(i)
           in1 == <<dChain[i].digest, GBytes(p1.D1L), GBytes(p1.D1R), GBytes(p1.D2L),
                    GBytes(p1.D2R), GBytes(c.C), GBytes(c.D1), GBytes(c.D2)>>
       IN  /\ vTrace[i] = VerifierRoundAt(i).nextCommitment
           /\ VerifierRoundAt(i).beta = hashToZr(in1)
           /\ VerifierRoundAt(i).alpha =
                hashToZr(<<GBytes(p2.Cplus), GBytes(p2.Cminus), Sha256(Concat(in1))>>)
           /\ VerifierRoundAt(i).beta = dTrace[i].beta
           /\ VerifierRoundAt(i).alpha = dTrace[i].alpha
           /\ \A g \in Draws :
                /\ verifyRound(dChain[i], c, OtherStep1(p1, g), p2).beta
                     = VerifierRoundAt(i).beta
                /\ verifyRound(dChain[i], c, OtherStep1(p1, g), p2).alpha
                     = VerifierRoundAt(i).alpha
                /\ verifyRound(dChain[i], c, OtherStep1(p1, g), p2).nextCommitment
                     = vTrace[i]

C23_Witness ==
  /\ doryPhase = "verified"
  /\ Len(dTrace) = MaxLogN
  /\ Len(vTrace) = MaxLogN
  /\ \A i \in 1 .. MaxLogN :
       /\ dTrace[i].step1.C # dTrace[i].step1.D1L
       /\ dTrace[i].step2.Cplus # dTrace[i].step2.Cminus
       /\ VerifierRoundAt(i).beta = dTrace[i].beta
       /\ dTrace[i].beta # dTrace[i].alpha

(* The challenge of the proof at hand for the bytes of a context: SHA-256 over
   the encodings of A and B and these bytes, as a scalar. *)
ChallengeOfBytes(bytes) ==
  FieldElementFromBytes(Sha256(GBytes(tagProof.proof.A) \o GBytes(tagProof.proof.B) \o bytes))

SameBytes ==
  /\ tagPhase = "verified"
  /\ Concat(tagCall.context) = Concat(tagProof.context)

(* C24: what Proof.Verify returns is what the two relations give for the
   challenge of A, B and the concatenation of the extras, the prefix, the tag
   and the commitment not being hashed; verified with extras whose
   concatenation is that of the extras it was made for, a proof gives what it
   gives with its own extras, nil under its own prefix. *)
C24_ExtrasByConcatenation ==
  tagPhase = "verified" =>
    /\ tagCall.err =
         (IF ~TagRelationHolds(tagProof.proof, tagProof.tag, tagCall.prefix,
                               ChallengeOfBytes(Concat(tagCall.context)))
          THEN "tag proof mismatch"
          ELSE IF ~CommitmentRelationHolds(tagProof.proof, tagKey.com,
                                           ChallengeOfBytes(Concat(tagCall.context)))
          THEN "commitment proof mismatch"
          ELSE Nil)
    /\ SameBytes =>
         /\ tagCall.err = ProofVerify(tagProof.proof, tagProof.tag, tagKey.com,
                                      tagCall.prefix, tagProof.context)
         /\ tagCall.prefix = tagProof.prefix => tagCall.err = Nil

C24_Witness ==
  /\ SameBytes
  /\ tagCall.context # tagProof.context
  /\ Len(tagCall.context) = Len(tagProof.context)
  /\ tagCall.prefix = tagProof.prefix
  /\ tagKey.sk > 1 /\ tagKey.r > 0
  /\ ChallengeOfBytes(Concat(tagCall.context)) # 0
  /\ tagCall.err = Nil

(* C22 as stated: FieldElementFromBytes panics on an input that is not a
   digest long and otherwise returns, in [0, q), the big-endian value of the
   digest, less q if that value is not below q. *)
C22_BigEndianLessQ ==
  feCall # << >> =>
    /\ feCall[1].panicked <=> Len(feCall[1].digest) # DigestLen
    /\ ~feCall[1].panicked =>
         /\ feCall[1].result[1] \in Zr
         /\ feCall[1].result[1] =
              (IF BigEndianValue(feCall[1].digest) < Q
               THEN BigEndianValue(feCall[1].digest)
               ELSE BigEndianValue(feCall[1].digest) - Q)

(* The value of the digest's words as limbs, the first word least significant
   and the last word reduced modulo the top limb of q. *)
LimbsValue(b) ==
  (b[1] * ByteBase + b[2]) + LimbBase * ((b[3] * ByteBase + b[4]) % (Q \div LimbBase))

(* C22, amended: FieldElementFromBytes panics on an input that is not a digest
   long; otherwise the digest's big-endian words are limbs, the first word the
   least significant, the last word is reduced modulo the top limb of q, which
   leaves a value z below q, so that q is never subtracted, and the result is
   the scalar in [0, q) whose product with the Montgomery radix is z modulo q. *)
C22_LimbsOutOfMontgomeryForm ==
  feCall # << >> =>
    /\ feCall[1].panicked <=> Len(feCall[1].digest) # DigestLen
    /\ feCall[1].panicked <=> feCall[1].result = << >>
    /\ ~feCall[1].panicked =>
         /\ feCall[1].result[1] \in Zr
         /\ LimbsValue(feCall[1].digest) < Q
         /\ feFrom256Bits(feCall[1].digest) = LimbsValue(feCall[1].digest)
         /\ (feCall[1].result[1] * (LimbBase * LimbBase)) % Q = LimbsValue(feCall[1].digest)

C22_Witness ==
  /\ feCall # << >>
  /\ ~feCall[1].panicked
  /\ BigEndianValue(feCall[1].digest) >= Q
  /\ feCall[1].digest[1] # 0
  /\ feCall[1].digest[3] * ByteBase + feCall[1].digest[4] >= Q \div LimbBase
  /\ feCall[1].result[1] # LimbsValue(feCall[1].digest)
  /\ feCall[1].result[1] \in Zr

PowerOfTwo(n) == \E k \in 0 .. n : 2 ^ k = n

(* C21: GeneratePublicParams(n) panics for every n, 0 included, that is not a
   power of two; ComputePreProcessedParams panics for a ring whose length is
   not the length of the chain's first level; Sign panics for a key whose
   public key g1*sk is not in the ring; a call that panics returns nothing. *)
C21_FatalErrors ==
  fatalCall # << >> =>
    /\ fatalCall[1].panicked => fatalCall[1].returned = << >>
    /\ fatalCall[1].op = "GeneratePublicParams" /\ ~PowerOfTwo(fatalCall[1].n)
         => fatalCall[1].panicked
    /\ fatalCall[1].op = "ComputePreProcessedParams"
         /\ Len(fatalCall[1].ring) # fatalCall[1].n
         => fatalCall[1].panicked
    /\ fatalCall[1].op = "Sign"
         /\ (\A i \in 1 .. Len(fatalCall[1].ring) :
               fatalCall[1].ring[i] # GMul(GenG1, fatalCall[1].sk))
         => fatalCall[1].panicked

C21_Witness ==
  /\ fatalCall # << >>
  /\ fatalCall[1].op = "Sign"
  /\ fatalCall[1].n = 2 ^ MaxLogN
  /\ fatalCall[1].sk > fatalCall[1].n
  /\ \A i \in 1 .. Len(fatalCall[1].ring) :
       fatalCall[1].ring[i] # GMul(GenG1, fatalCall[1].sk)
  /\ fatalCall[1].panicked
  /\ fatalCall[1].returned = << >>

====
